---- MODULE Spec2Model ----
(***************************************************************************)
(* A model of the Applicator job-search pipeline: the language-model       *)
(* gateway (ollama_client.py), the email parser (email_parser.py), the     *)
(* job store (storage.py), the scorer (job_scorer.py), the company         *)
(* researcher (company_researcher.py) and the CLI stages of main.py.       *)
(*                                                                         *)
(* Text is a sequence of runs [c |-> class, n |-> characters]: n           *)
(* characters of class c, or one literal chunk c that is n characters      *)
(* long.  A Python dict is a function from its keys (strings).             *)
(***************************************************************************)
EXTENDS Integers, Sequences, FiniteSets, TLC

VARIABLES
    gw_pc,        \* parse_structured: "idle", "loop", "returned" or "raised"
    gw_prompt,    \* the prompt parse_structured was called with
    gw_attempt,   \* the loop variable `attempt`
    gw_response,  \* the local `response`
    gw_sent,      \* the prompts handed to llm.invoke, in order
    gw_replies,   \* what llm.invoke did on each call, in order
    gw_result     \* the returned mapping, NoValue before the return

gwVars == <<gw_pc, gw_prompt, gw_attempt, gw_response, gw_sent, gw_replies, gw_result>>

VARIABLES
    pe_email,     \* parse_email: the email it was called with
    pe_gateway,   \* what parse_structured returned to it
    pe_result     \* the record parse_email returned, NoValue before the call

peVars == <<pe_email, pe_gateway, pe_result>>

VARIABLES
    files,        \* the job store directory: file name (the id) -> record
    mailbox,      \* the messages: [email, unread], in arrival order
    stage,        \* the CLI command that is running, or "idle"
    ck_emails,    \* check_emails: the fetched messages still to process
    ck_pc,        \* check_emails: "parse" or "mark" within the loop body
    ck_count,     \* check_emails: parsed_count
    ck_event,     \* check_emails: what it printed last, and for which message
    ck_result     \* what the last check_emails run returned

ckVars == <<ck_emails, ck_pc, ck_count, ck_event, ck_result>>

VARIABLES
    resume_cache,      \* the resume cache file: NoValue when absent
    config_resume_id,  \* whether Config.GOOGLE_DRIVE_RESUME_ID is set
    sc_queue,          \* score_jobs: the unscored jobs still to score
    sc_resume,         \* score_jobs: resume_data
    sc_count,          \* score_jobs: scored_count
    sc_event           \* score_jobs: what it printed last, and for which job

scVars == <<resume_cache, config_resume_id, sc_queue, sc_resume, sc_count, sc_event>>

VARIABLES
    rs_queue,     \* research_high_scoring: the high-scoring jobs still to handle
    rs_done,      \* research_high_scoring: researched_companies
    rs_calls,     \* the companies research_company was called for in this run, in order
    rs_errors,    \* how many jobs of this run ended in the except clause
    rs_event      \* research_high_scoring: what it did last, and for which job

rsVars == <<rs_queue, rs_done, rs_calls, rs_errors, rs_event>>

VARIABLES
    rv_min,       \* review_jobs: min_score, NoValue when not given
    rv_listing    \* review_jobs: the jobs it listed, NoValue before the call

rvVars == <<rv_min, rv_listing>>

VARIABLES
    id_a,         \* _generate_job_id: a job
    id_b,         \* _generate_job_id: another job
    id_out        \* the ids derived for the two, NoValue before the calls

idVars == <<id_a, id_b, id_out>>

VARIABLES
    rp_call,      \* the last parse_resume call: its arguments, what it read and gave
    main_exit,    \* the exit status of the last score, generate or refresh-resume
                  \* command, NoValue while one runs
    gn_done       \* generate_materials: what it printed for each job, in order

rpVars == <<rp_call, main_exit, gn_done>>

VARIABLES
    collection    \* the Chroma collection "jobs": id -> [document, metadata]

ixVars == <<collection>>

pipeVars == <<files, mailbox, stage, ckVars, scVars, rsVars, rvVars, rpVars, ixVars>>

vars == <<gwVars, peVars, idVars, pipeVars>>

notGw == <<peVars, idVars, pipeVars>>

notPe == <<gwVars, idVars, pipeVars>>

notId == <<gwVars, peVars, pipeVars>>

notPipe == <<gwVars, peVars, idVars>>

NoValue == [none |-> TRUE]

----------------------------------------------------------------------------
(* Text and dict helpers *)

Run(c, n) == [c |-> c, n |-> n]

Lit(c, n) == <<Run(c, n)>>

RECURSIVE SLen(_)
SLen(s) == IF s = <<>> THEN 0 ELSE Head(s).n + SLen(Tail(s))

\* Python s[:k]
RECURSIVE STake(_, _)
STake(s, k) ==
    IF s = <<>> \/ k <= 0 THEN <<>>
    ELSE IF Head(s).n <= k THEN <<Head(s)>> \o STake(Tail(s), k - Head(s).n)
    ELSE <<[Head(s) EXCEPT !.n = k]>>

\* Python s + t (adjacent runs of one class merge, so equal texts are equal values)
SCat(s, t) ==
    IF s = <<>> THEN t
    ELSE IF t = <<>> THEN s
    ELSE IF s[Len(s)].c = t[1].c
         THEN SubSeq(s, 1, Len(s) - 1) \o <<Run(t[1].c, s[Len(s)].n + t[1].n)>> \o Tail(t)
         ELSE s \o t

\* Python d[k] = v
SetKey(d, k, v) == [x \in (DOMAIN d) \cup {k} |-> IF x = k THEN v ELSE d[x]]

\* Python d.get(k, default)
Get(d, k, default) == IF k \in DOMAIN d THEN d[k] ELSE default

EmptyDict == [x \in {} |-> NoValue]

----------------------------------------------------------------------------
(* ollama_client.py: OllamaClient.parse_structured *)

MaxRetries == 3

RawLimit == 500

\* A reply of the model is text made of these pieces: prose "x", whitespace
\* "s", the characters "{", "}" and ",", a member `"k": v` of an object ("kv",
\* with its key k and value v) and a JSON value that is not an object ("val").
Tok(c) == Run(c, 1)

Member(k, v) == [c |-> "kv", n |-> 1, k |-> k, v |-> v]

\* re.search(r'\{.*\}', response, re.DOTALL): the leftmost "{" that has a "}"
\* after it, up to the last "}" of the response.
HasBraceSpan(r) ==
    \E i, j \in 1..Len(r) : i < j /\ r[i].c = "{" /\ r[j].c = "}"

NoDecode == [ok |-> FALSE]

RECURSIVE Members(_, _)
\* the members of an object body, tokens t, folded into dict d; later keys win
Members(t, d) ==
    IF t = <<>> THEN [ok |-> TRUE, dict |-> TRUE, val |-> d]
    ELSE IF t[1].c # "kv" THEN NoDecode
    ELSE IF Len(t) = 1 THEN [ok |-> TRUE, dict |-> TRUE, val |-> SetKey(d, t[1].k, t[1].v)]
    ELSE IF t[2].c = "," /\ Len(t) >= 3
         THEN Members(SubSeq(t, 3, Len(t)), SetKey(d, t[1].k, t[1].v))
         ELSE NoDecode

\* json.loads(text): whitespace between the pieces is skipped
json_loads(text) ==
    LET t == SelectSeq(text, LAMBDA x : x.c # "s")
    IN  IF t = <<>> THEN NoDecode
        ELSE IF Len(t) = 1 /\ t[1].c = "val" THEN [ok |-> TRUE, dict |-> FALSE]
        ELSE IF Len(t) >= 2 /\ t[1].c = "{" /\ t[Len(t)].c = "}"
             THEN Members(SubSeq(t, 2, Len(t) - 1), EmptyDict)
             ELSE NoDecode

\* json_match.group(): greedy, from the first "{" to the last "}"
json_match(r) ==
    LET i == CHOOSE a \in 1..Len(r) : r[a].c = "{" /\ \A b \in 1..(a - 1) : r[b].c # "{"
        j == CHOOSE a \in 1..Len(r) : r[a].c = "}" /\ \A b \in (a + 1)..Len(r) : r[b].c # "}"
    IN  SubSeq(r, i, j)

TryBodyWholeResponse(r) ==
    LET w == json_loads(r)
    IN  IF ~w.ok THEN [out |-> "except", err |-> "JSONDecodeError"]
        ELSE IF w.dict THEN [out |-> "return", val |-> w.val]
        ELSE [out |-> "fall"]

\* One pass through the try block (lines 30-45) on the model's reply r:
\* "return" with the parsed dict, "except" with the exception's text, or
\* "fall" when the block ends without returning or raising.
TryBody(r) ==
    LET m  == IF HasBraceSpan(r) THEN json_loads(json_match(r)) ELSE NoDecode
        w  == json_loads(r)
    IN  IF HasBraceSpan(r) /\ ~m.ok THEN [out |-> "except", err |-> "JSONDecodeError"]
        ELSE IF HasBraceSpan(r) /\ m.dict THEN [out |-> "return", val |-> m.val]
        ELSE IF ~w.ok THEN [out |-> "except", err |-> "JSONDecodeError"]
        ELSE IF w.dict THEN [out |-> "return", val |-> w.val]
        ELSE [out |-> "fall"]

\* str(e), the text of an exception
ExcText(err) == Lit(err, Len(err))

ErrorSentinel(err, response) ==
    [k \in {"error", "raw_response"} |->
        IF k = "error" THEN ExcText(err) ELSE STake(response, RawLimit)]

\* What llm.invoke(prompt) can do: raise, or return a text.
Raise == [raise |-> TRUE]

Reply(text) == [raise |-> FALSE, text |-> text]

GwPrompts == {"prompt_a", "prompt_b"}

GwReplies ==
    { <<Run("x", 5)>>,
      <<Run("x", 600)>>,
      <<Tok("val")>>,
      <<Tok("{"), Member("a", "v1"), Tok("}")>>,
      <<Run("x", 3), Tok("{"), Member("a", "v1"), Tok("}"), Run("x", 2)>>,
      <<Tok("{"), Member("a", "v1"), Tok("}"), Run("x", 2), Tok("{"), Member("b", "v2"), Tok("}")>>,
      <<Tok("{"), Run("x", 4), Tok("}")>>,
      <<Tok("}"), Tok("{")>>,
      <<Tok("{"), Member("error", "v1"), Tok("}")>>,
      <<Tok("s"), Tok("{"), Tok("s"), Member("a", "v1"), Tok(","), Member("a", "v2"), Tok("s"), Tok("}"), Tok("s")>> }

ModelOutcomes == {Raise} \cup {Reply(r) : r \in GwReplies}

CaughtOnlyDecodeErrors(err) == err = "JSONDecodeError"

\* except (json.JSONDecodeError, Exception): every exception of the try block
Caught(err) == TRUE

\* One iteration of the for loop (lines 28-50) and, after the last one, line 51.
\* o is what llm.invoke did; the result is the new `response` and how the
\* iteration ends: "continue", "return" (with val) or "raise".
LoopIteration(o, attempt, response, max_retries) ==
    LET resp == IF o.raise THEN response ELSE o.text
        body == IF o.raise THEN [out |-> "except", err |-> "ModelError"] ELSE TryBody(o.text)
        last == (attempt = max_retries - 1)
    IN  IF body.out = "return"
            THEN [response |-> resp, ends |-> "return", val |-> body.val]
        ELSE IF body.out = "except" /\ ~Caught(body.err)
            THEN [response |-> resp, ends |-> "raise", val |-> NoValue]
        ELSE IF body.out = "except" /\ last
            THEN [response |-> resp, ends |-> "return", val |-> ErrorSentinel(body.err, resp)]
        ELSE IF last
            THEN [response |-> resp, ends |-> "return",
                  val |-> ErrorSentinel("Failed to parse after retries", resp)]
        ELSE [response |-> resp, ends |-> "continue", val |-> NoValue]

RECURSIVE ps_loop(_, _, _)
ps_loop(script, attempt, response) ==
    LET it == LoopIteration(script[attempt + 1], attempt, response, MaxRetries)
    IN  IF it.ends = "continue" THEN ps_loop(script, attempt + 1, it.response)
        ELSE [ends |-> it.ends, val |-> it.val, calls |-> attempt + 1]

\* parse_structured(prompt) as a function of what the model does on its
\* successive calls (script, MaxRetries outcomes): how it ends, the returned
\* mapping and the number of model calls made.
parse_structured(script) == ps_loop(script, 0, <<>>)

\* parse_structured(prompt) is entered: response = "" and the loop starts.
GwCall(p) ==
    /\ gw_pc = "idle"
    /\ gw_pc' = "loop"
    /\ gw_prompt' = p
    /\ gw_attempt' = 0
    /\ gw_response' = <<>>
    /\ gw_sent' = <<>>
    /\ gw_replies' = <<>>
    /\ gw_result' = NoValue
    /\ UNCHANGED notGw

\* One loop iteration: the model is invoked with the prompt and does o.
GwAttempt(o) ==
    /\ gw_pc = "loop"
    /\ gw_attempt < MaxRetries
    /\ LET it == LoopIteration(o, gw_attempt, gw_response, MaxRetries)
       IN  /\ gw_sent' = Append(gw_sent, gw_prompt)
           /\ gw_replies' = Append(gw_replies, o)
           /\ gw_response' = it.response
           /\ gw_result' = it.val
           /\ gw_pc' = CASE it.ends = "return" -> "returned"
                          [] it.ends = "raise" -> "raised"
                          [] OTHER -> "loop"
           /\ gw_attempt' = IF it.ends = "continue" THEN gw_attempt + 1 ELSE gw_attempt
    /\ UNCHANGED <<gw_prompt, notGw>>

----------------------------------------------------------------------------
(* email_parser.py: EmailParser *)

\* the keys parse_email sets when the Gateway result lacks them
JobKeys == {"title", "company", "location", "url", "source", "description"}

TitleLimit == 100

DescriptionLimit == 500

\* JSON null (Python None), kept apart from every text: a run of no characters
JNull == <<Run("None", 0)>>

\* Python truthiness of a JSON text or null: "" and None are false
Falsy(v) == v = <<>> \/ v = JNull

\* str.lower() on the chunks that come in two cases
Lower(c) ==
    CASE c = "JOB" -> "job"
      [] c = "CAREER" -> "career"
      [] c = "LinkedIn" -> "linkedin"
      [] c = "Indeed" -> "indeed"
      [] OTHER -> c

\* re.sub(r'^<prefix>\s*', '', subject, flags=re.IGNORECASE): the chunk and
\* the whitespace after it, at the start of the subject only
StripPrefix(subject, chunk) ==
    IF subject # <<>> /\ subject[1].c = chunk
    THEN IF Len(subject) >= 2 /\ subject[2].c = "s"
         THEN SubSeq(subject, 3, Len(subject))
         ELSE Tail(subject)
    ELSE subject

\* the characters of the class [|\-–—]
SplitsTitle(c) == c \in {"|", "-"}

\* re.split(r'[|\-–—]', subject)[0]
RECURSIVE FirstPart(_)
FirstPart(s) ==
    IF s = <<>> \/ SplitsTitle(s[1].c) THEN <<>> ELSE <<s[1]>> \o FirstPart(Tail(s))

RECURSIVE lstrip(_)
lstrip(s) == IF s # <<>> /\ s[1].c = "s" THEN lstrip(Tail(s)) ELSE s

RECURSIVE rstrip(_)
rstrip(s) ==
    IF s # <<>> /\ s[Len(s)].c = "s" THEN rstrip(SubSeq(s, 1, Len(s) - 1)) ELSE s

strip(s) == rstrip(lstrip(s))

\* EmailParser._extract_title_from_subject; "RE:" stands for re: in any case,
\* "FWD:" for fwd: or fw: in any case
_extract_title_from_subject(subject) ==
    LET s1 == StripPrefix(subject, "RE:")
        s2 == StripPrefix(s1, "FWD:")
        title == strip(FirstPart(s2))
    IN  STake(title, TitleLimit)

\* the characters [^\s<>"{}|\\^`\[\]] of the URL pattern: all but whitespace
\* "s" and the delimiters "<"
UrlChar(c) == c \notin {"s", "<"}

RECURSIVE UrlTail(_)
\* the longest prefix of s made of URL characters
UrlTail(s) ==
    IF s = <<>> \/ ~UrlChar(s[1].c) THEN <<>> ELSE <<s[1]>> \o UrlTail(Tail(s))

RECURSIVE findall_urls(_)
\* re.findall(url_pattern, body): "H" is the scheme http:// or https://
findall_urls(body) ==
    IF body = <<>> THEN <<>>
    ELSE IF body[1].c = "H" /\ UrlTail(Tail(body)) # <<>>
         THEN LET rest == UrlTail(Tail(body))
              IN  <<(<<body[1]>> \o rest)>>
                      \o findall_urls(SubSeq(body, Len(rest) + 2, Len(body)))
         ELSE findall_urls(Tail(body))

Keywords == {"job", "career", "apply", "position", "opening"}

\* any(keyword in url.lower() for keyword in [...])
LooksLikePosting(url) == \E i \in 1..Len(url) : Lower(url[i].c) \in Keywords

_extract_url_first(body) ==
    LET urls == findall_urls(body)
    IN  IF urls # <<>> THEN urls[1] ELSE <<>>

\* EmailParser._extract_url
_extract_url(body) ==
    LET urls == findall_urls(body)
        hits == {i \in 1..Len(urls) : LooksLikePosting(urls[i])}
    IN  IF hits # {} THEN urls[CHOOSE i \in hits : \A j \in hits : i <= j]
        ELSE IF urls # <<>> THEN urls[1]
        ELSE <<>>

Mentions(text, word) == \E i \in 1..Len(text) : Lower(text[i].c) = word

\* EmailParser._extract_source
_extract_source(email_from) ==
    IF Mentions(email_from, "linkedin") THEN Lit("LinkedIn", 8)
    ELSE IF Mentions(email_from, "indeed") THEN Lit("Indeed", 6)
    ELSE IF Mentions(email_from, "glassdoor") THEN Lit("Glassdoor", 9)
    ELSE IF Mentions(email_from, "ziprecruiter") THEN Lit("ZipRecruiter", 12)
    ELSE IF Mentions(email_from, "monster") THEN Lit("Monster", 7)
    ELSE Lit("Unknown", 7)

\* EmailParser.parse_email after the Gateway call: job_data is what
\* parse_structured returned; lines 46-64 set or keep one key each
parse_email(email_subject, email_body, email_from, job_data) ==
    [k \in (DOMAIN job_data) \cup JobKeys |->
        CASE k = "title" ->
                IF "title" \notin DOMAIN job_data \/ Falsy(job_data["title"])
                THEN _extract_title_from_subject(email_subject)
                ELSE job_data["title"]
          [] k = "company" ->
                IF "company" \notin DOMAIN job_data THEN Lit("Unknown", 7) ELSE job_data[k]
          [] k = "location" ->
                IF "location" \notin DOMAIN job_data THEN Lit("Unknown", 7) ELSE job_data[k]
          [] k = "url" ->
                IF "url" \notin DOMAIN job_data THEN _extract_url(email_body) ELSE job_data[k]
          [] k = "source" ->
                IF "source" \notin DOMAIN job_data
                THEN _extract_source(email_from) ELSE job_data[k]
          [] k = "description" ->
                Get(job_data, "description", STake(email_body, DescriptionLimit))
          [] OTHER -> job_data[k]]

GwIdle ==
    /\ gw_pc = "idle"
    /\ gw_prompt = ""
    /\ gw_attempt = 0
    /\ gw_response = <<>>
    /\ gw_sent = <<>>
    /\ gw_replies = <<>>
    /\ gw_result = NoValue

GwNext ==
    \/ \E p \in GwPrompts : GwCall(p)
    \/ \E o \in ModelOutcomes : GwAttempt(o)

----------------------------------------------------------------------------
(* parse_email on its own: the emails and the Gateway results it is run on *)

W(n) == Run("w", n)

Sp == Run("s", 1)

PeSubjects ==
    { <<W(6), Sp, W(7), Sp, W(8), Sp, Tok("-"), Sp, W(4), Sp, W(4)>>,
      <<Run("RE:", 3), Sp, W(3), Sp, W(5), Tok(":"), Sp, W(4), Sp, W(8)>>,
      <<Run("FWD:", 4), Sp, Run("RE:", 3), Sp, W(5), Sp, Tok("|"), Sp, W(4)>>,
      <<Run("RE:", 3), Run("FWD:", 4), Sp, W(5), Tok("-"), W(4)>>,
      <<Run("RE:", 3), Sp, Run("RE:", 3), Sp, W(5)>>,
      <<W(150)>>,
      <<W(60), Sp, W(60), Tok("|"), W(3)>>,
      <<Tok("-"), Sp, W(7)>>,
      <<Sp, W(4), Sp>>,
      <<>> }

Scheme == Run("H", 8)

PeBodies ==
    { <<W(5), Sp, W(2), Sp, Scheme, W(9), Run("career", 6), W(5), Sp, W(3)>>,
      <<Scheme, W(6), Sp, W(3), Sp, Scheme, W(6), Run("JOB", 3), W(2), Sp, Scheme, W(4), Run("apply", 5)>>,
      <<W(4), Sp, Scheme, W(12), Sp, W(4), Scheme, W(3)>>,
      <<Tok("<"), Scheme, W(5), Run("opening", 7), Tok("<"), W(3)>>,
      <<Scheme, Sp, W(4), Sp, Scheme, Scheme, W(4)>>,
      <<W(800), Sp, Scheme, W(10), Run("position", 8)>>,
      <<W(12)>>,
      <<>> }

PeSenders ==
    { <<W(4), Tok("@"), Run("linkedin", 8), W(4)>>,
      <<W(4), Tok("@"), Run("Indeed", 6), W(4)>>,
      <<Run("monster", 7), Tok("@"), Run("LinkedIn", 8), W(4)>>,
      <<W(5), Tok("@"), Run("glassdoor", 9), W(4)>>,
      <<Run("ziprecruiter", 12), Tok("@"), Run("monster", 7), W(4)>>,
      <<W(2), Tok("@"), Run("monster", 7), W(4)>>,
      <<W(2), Tok("@"), W(9)>> }

PeEmails == [subject : PeSubjects, body : PeBodies, from : PeSenders]

ExtraJobKeys == {"salary", "employment_type"}

\* what the model answers for a key when it answers it
Extracted(k) ==
    CASE k = "title" -> Lit("t", 20)
      [] k = "company" -> Lit("c", 8)
      [] k = "location" -> Lit("l", 6)
      [] k = "url" -> <<Scheme, Run("u", 12)>>
      [] k = "source" -> Lit("Indeed", 6)
      [] k = "description" -> Lit("d", 300)
      [] k = "salary" -> Lit("$", 9)
      [] k = "employment_type" -> Lit("full-time", 9)

Answer(keys) == [k \in keys |-> Extracted(k)]

PeGatewayResults ==
    {Answer(K \cup X) : K \in SUBSET JobKeys, X \in {{}, ExtraJobKeys}}
        \cup {SetKey(Answer(K), "title", v) : K \in {JobKeys, {"company"}}, v \in {<<>>, JNull}}
        \cup {SetKey(Answer(JobKeys), "description", Lit("d", 700))}
        \cup {ErrorSentinel("JSONDecodeError", <<Run("x", 600)>>),
              ErrorSentinel("Failed to parse after retries", <<Tok("val")>>)}

PeIdle ==
    /\ pe_email = NoValue
    /\ pe_gateway = NoValue
    /\ pe_result = NoValue

\* parse_email(subject, body, from) runs on the email, the Gateway handing it
\* pe_gateway
PeCall ==
    /\ pe_email # NoValue
    /\ pe_result = NoValue
    /\ pe_result' = parse_email(pe_email.subject, pe_email.body, pe_email.from, pe_gateway)
    /\ UNCHANGED <<pe_email, pe_gateway, notPe>>

PeNext == PeCall

----------------------------------------------------------------------------
(* storage.py: Storage *)

\* str(v) inside an f-string: a text is itself, None is "None"
Format(v) == IF v = JNull THEN Lit("None", 4) ELSE v

\* hashlib.md5(text).hexdigest()[:12], taken as collision-free: the digest
\* of a text stands for that text and for no other
md5_12(text) == [md5 |-> text]

_generate_job_id_no_url(job) ==
    md5_12(SCat(Format(Get(job, "title", <<>>)), Format(Get(job, "company", <<>>))))

\* Storage._generate_job_id
_generate_job_id(job) ==
    md5_12(SCat(SCat(Format(Get(job, "title", <<>>)), Format(Get(job, "company", <<>>))),
                Format(Get(job, "url", <<>>))))

WriteFileLost(dir, name, record) == dir

\* Config.DATA_DIR / f"{job_id}.json" is written with the record
WriteFile(dir, name, record) ==
    [f \in (DOMAIN dir) \cup {name} |-> IF f = name THEN record ELSE dir[f]]

NoFiles == [f \in {} |-> NoValue]

\* the collection get_or_create_collection(name="jobs") creates
NoIndex == [f \in {} |-> NoValue]

\* collection.upsert(ids=[job_id], documents=[...], metadatas=[{...}])
upsert(coll, job_id, document, metadata) ==
    [f \in (DOMAIN coll) \cup {job_id} |->
        IF f = job_id THEN [document |-> document, metadata |-> metadata] ELSE coll[f]]

\* lines 36-42: the metadata save_job gives the index for a job
IndexMetadata(job) ==
    [k \in {"title", "company", "location", "score", "source"} |->
        IF k = "score" THEN Get(job, "score", 0) ELSE Get(job, k, <<>>)]

\* Storage.save_job(job): the record file and the index entry are written
\* under the id derived from the job; the store, the index and the id after it
save_job(dir, coll, job) ==
    LET job_id == _generate_job_id(job)
        record == SetKey(job, "id", job_id)
    IN  [files |-> WriteFile(dir, job_id, record),
         collection |-> upsert(coll, job_id, Get(record, "description", <<>>),
                               IndexMetadata(record)),
         val |-> job_id]

----------------------------------------------------------------------------
(* resume_parser.py: ResumeParser.parse_resume *)

Skills(n) == [i \in 1..n |-> Lit("skill", i)]

\* the keys the resume prompt asks for
ResumeKeys ==
    {"skills", "experience_years", "experience_level", "education", "notable_projects",
     "areas_of_expertise", "current_role", "previous_roles"}

ResumeAnswer(keys) ==
    [k \in keys |->
        CASE k = "skills" -> Skills(2)
          [] k = "areas_of_expertise" -> Skills(1)
          [] k = "experience_years" -> 5
          [] k = "experience_level" -> Lit("senior", 6)
          [] k = "current_role" -> Lit("r", 12)
          [] OTHER -> <<>>]

save_resume_data_skipped(cache, resume_data) == cache

\* Storage.save_resume_data: the cache file after it
save_resume_data(cache, resume_data) == resume_data

load_resume_data_absent(cache) == NoValue

\* Storage.load_resume_data: the cached profile, None when there is no file
load_resume_data(cache) == cache

\* parse_resume(force_refresh) given the cache file, whether the document id
\* is configured, the text the Drive client returns and what parse_structured
\* returns: whether it raises, the value it returns, the cache file after it,
\* whether the document was fetched and how often the Gateway was called
parse_resume(cache, force_refresh, id_set, resume_text, resume_data) ==
    LET cached == IF force_refresh THEN NoValue ELSE load_resume_data(cache)
    IN  IF cached # NoValue /\ cached # EmptyDict
            THEN [raises |-> FALSE, val |-> cached, cache |-> cache,
                  fetched |-> FALSE, gateway_calls |-> 0]
        ELSE IF ~id_set
            THEN [raises |-> TRUE, val |-> NoValue, cache |-> cache,
                  fetched |-> FALSE, gateway_calls |-> 0]
        ELSE IF resume_text = <<>>
            THEN [raises |-> TRUE, val |-> NoValue, cache |-> cache,
                  fetched |-> TRUE, gateway_calls |-> 0]
        ELSE IF "error" \in DOMAIN resume_data
            THEN [raises |-> TRUE, val |-> NoValue, cache |-> cache,
                  fetched |-> TRUE, gateway_calls |-> 1]
        ELSE LET parsed ==
                     [k \in (DOMAIN resume_data) \cup
                            {"skills", "experience_years", "experience_level", "raw_text"} |->
                         CASE k = "raw_text" -> resume_text
                           [] k \in DOMAIN resume_data -> resume_data[k]
                           [] k = "skills" -> <<>>
                           [] k = "experience_years" -> 0
                           [] k = "experience_level" -> Lit("mid", 3)]
             IN  [raises |-> FALSE, val |-> parsed, cache |-> save_resume_data(cache, parsed),
                  fetched |-> TRUE, gateway_calls |-> 1]

\* what is kept of a parse_resume call: its arguments, the cache file before
\* it, the text fetched and the Gateway result received, if any, and its result
ResumeCall(cache, force_refresh, id_set, resume_text, resume_data) ==
    LET r == parse_resume(cache, force_refresh, id_set, resume_text, resume_data)
    IN  [force |-> force_refresh, before |-> cache, id_set |-> id_set,
         text |-> IF r.fetched THEN resume_text ELSE <<>>,
         gateway |-> IF r.gateway_calls > 0 THEN resume_data ELSE EmptyDict,
         raises |-> r.raises, val |-> r.val, fetched |-> r.fetched,
         gateway_calls |-> r.gateway_calls]

----------------------------------------------------------------------------
(* job_scorer.py: JobScorer.score_job *)

\* JSON values the model can put under "score"
JInt(i) == [ty |-> "int", i |-> i]

\* a float: finite with the integer part trunc, or "nan", "inf", "-inf"
JFloat(kind, trunc) == [ty |-> "float", kind |-> kind, trunc |-> trunc]

\* a string: a decimal integer literal (digits, with its value) or not
JStr(digits, value) == [ty |-> "str", digits |-> digits, value |-> value]

JBool(b) == [ty |-> "bool", b |-> b]

JOther(ty) == [ty |-> ty]

\* Python int(v): the integer, or the exception it raises
int(v) ==
    CASE v.ty = "int" -> [ok |-> TRUE, i |-> v.i]
      [] v.ty = "bool" -> [ok |-> TRUE, i |-> IF v.b THEN 1 ELSE 0]
      [] v.ty = "float" /\ v.kind = "finite" -> [ok |-> TRUE, i |-> v.trunc]
      [] v.ty = "float" /\ v.kind = "nan" -> [ok |-> FALSE, exc |-> "ValueError"]
      [] v.ty = "float" -> [ok |-> FALSE, exc |-> "OverflowError"]
      [] v.ty = "str" /\ v.digits -> [ok |-> TRUE, i |-> v.value]
      [] v.ty = "str" -> [ok |-> FALSE, exc |-> "ValueError"]
      [] OTHER -> [ok |-> FALSE, exc |-> "TypeError"]

Max(a, b) == IF a >= b THEN a ELSE b

Min(a, b) == IF a <= b THEN a ELSE b

\* lines 93-98: the clamped score, or the exception that leaves score_job
ValidRange(scoring_result) ==
    LET conv == int(Get(scoring_result, "score", JInt(0)))
    IN  IF conv.ok THEN [raises |-> FALSE, score |-> Max(0, Min(100, conv.i))]
        ELSE IF conv.exc \in {"ValueError", "TypeError"} THEN [raises |-> FALSE, score |-> 0]
        ELSE [raises |-> TRUE, exc |-> conv.exc]

SubScoreKeys ==
    {"skill_match_score", "experience_match_score", "preferences_match_score",
     "location_match_score", "overall_fit_score"}

\* the keys the scoring prompt asks for
ScoringKeys == {"score", "reasoning", "matched_skills", "missing_skills"} \cup SubScoreKeys

FailedScoringWithoutError(scoring_result) ==
    [k \in ScoringKeys \cup {"error"} |->
        CASE k = "score" -> 0
          [] k = "reasoning" -> Lit("Scoring failed: ", 16)
          [] k \in SubScoreKeys -> 0
          [] k \in {"matched_skills", "missing_skills"} -> <<>>
          [] k = "error" -> Lit("Unknown", 7)]

\* lines 79-90: the result when the Gateway result holds the key "error"
FailedScoring(scoring_result) ==
    [k \in ScoringKeys \cup {"error"} |->
        CASE k = "score" -> 0
          [] k = "reasoning" -> SCat(Lit("Scoring failed: ", 16), Format(scoring_result["error"]))
          [] k \in SubScoreKeys -> 0
          [] k \in {"matched_skills", "missing_skills"} -> <<>>
          [] k = "error" -> scoring_result["error"]]

\* JobScorer.score_job after the Gateway call; scoring_result is what
\* parse_structured returned
score_job(resume_data, job, scoring_result) ==
    IF "error" \in DOMAIN scoring_result
        THEN [raises |-> FALSE, val |-> FailedScoring(scoring_result)]
    ELSE IF ValidRange(scoring_result).raises
        THEN [raises |-> TRUE, val |-> NoValue]
    ELSE [raises |-> FALSE,
          val |-> [k \in (DOMAIN scoring_result) \cup
                         {"score", "reasoning", "matched_skills", "missing_skills",
                          "resume_skills_count", "job_title", "job_company"} |->
                     CASE k = "score" -> ValidRange(scoring_result).score
                       [] k = "resume_skills_count" -> Len(Get(resume_data, "skills", <<>>))
                       [] k = "job_title" -> Get(job, "title", <<>>)
                       [] k = "job_company" -> Get(job, "company", <<>>)
                       [] k \in DOMAIN scoring_result -> scoring_result[k]
                       [] k = "reasoning" -> Lit("Score calculated based on resume match", 38)
                       [] k \in {"matched_skills", "missing_skills"} -> <<>>]]

----------------------------------------------------------------------------
(* gmail_client.py and main.py: check_emails *)

MaxResults == 50

MaxMsgs == 2

\* the texts for a short title, company and url: "ab" + "c" and "a" + "bc"
\* are two postings whose concatenations agree
Ch(c) == Run(c, 1)

CheckEmails ==
    { [subject |-> <<W(6), Sp, Tok("-"), Sp, W(4)>>,
       body |-> <<W(5), Sp, Scheme, W(9), Run("career", 6)>>,
       from |-> <<W(4), Tok("@"), Run("linkedin", 8), W(4)>>],
      [subject |-> <<Run("RE:", 3), Sp, W(9)>>,
       body |-> <<W(30)>>,
       from |-> <<W(2), Tok("@"), W(9)>>] }

Posting(title, company, url) ==
    [k \in JobKeys \cup ExtraJobKeys |->
        CASE k = "title" -> title
          [] k = "company" -> company
          [] k = "url" -> url
          [] OTHER -> Extracted(k)]

\* what parse_structured hands parse_email in a check run
CheckGatewayResults ==
    { Posting(<<Ch("a"), Ch("b")>>, <<Ch("c")>>, <<Scheme, Ch("u")>>),
      Posting(<<Ch("a")>>, <<Ch("b"), Ch("c")>>, <<Scheme, Ch("u")>>),
      Posting(<<Ch("a"), Ch("b")>>, <<Ch("c")>>, <<>>),
      Answer({"company", "description"}),
      ErrorSentinel("JSONDecodeError", <<Run("x", 5)>>) }

\* indices of the unread messages, in mailbox order
RECURSIVE UnreadFrom(_, _)
UnreadFrom(box, i) ==
    IF i > Len(box) THEN <<>>
    ELSE IF box[i].unread THEN <<i>> \o UnreadFrom(box, i + 1)
    ELSE UnreadFrom(box, i + 1)

\* GmailClient.get_unread_job_emails: the unread messages, at most
\* max_results, or [] when the API raises HttpError
get_unread_job_emails(box, max_results, http_error) ==
    IF http_error THEN <<>>
    ELSE LET all == UnreadFrom(box, 1)
         IN  SubSeq(all, 1, IF Len(all) < max_results THEN Len(all) ELSE max_results)

AlreadyStoredNever(dir, job_id) == FALSE

AlreadyStoredUnscored(dir, job_id) ==
    \E f \in DOMAIN dir : Get(dir[f], "id", NoValue) = job_id /\ "score" \notin DOMAIN dir[f]

\* any(job.get("id") == job_id for job in existing_jobs)
AlreadyStored(dir, job_id) ==
    \E f \in DOMAIN dir : Get(dir[f], "id", NoValue) = job_id

\* the record check_emails writes for an email, given the Gateway result:
\* parse_email's record with the id save_job gives it (main.py lines 30-48)
Ingested(email, g) ==
    LET job_data == parse_email(email.subject, email.body, email.from, g)
    IN  SetKey(job_data, "id", _generate_job_id(job_data))

\* a line check_emails prints about a message and the record it parsed
Printed(msg, event, job) == [msg |-> msg, ev |-> event, job |-> job]

\* a job-alert email arrives in the mailbox, unread
Deliver(e) ==
    /\ stage = "idle"
    /\ Len(mailbox) < MaxMsgs
    /\ mailbox' = Append(mailbox, [email |-> e, unread |-> TRUE])
    /\ UNCHANGED <<files, stage, ckVars, scVars, rsVars, rvVars, rpVars, ixVars, notPipe>>

\* check_emails, lines 18-27: the unread messages are fetched. list_fails
\* says whether messages().list raises HttpError, get_fails which of the
\* messages().get calls does, 0 for none
CheckStart(list_fails, get_fails) ==
    /\ stage = "idle"
    /\ get_fails <= Len(get_unread_job_emails(mailbox, MaxResults, FALSE))
    /\ list_fails => get_fails = 0
    /\ stage' = "check"
    /\ ck_emails' = get_unread_job_emails(mailbox, MaxResults, list_fails \/ get_fails > 0)
    /\ ck_pc' = "parse"
    /\ ck_count' = 0
    /\ ck_event' = IF list_fails \/ get_fails > 0
                    THEN [ev |-> "fetch_error", get |-> get_fails,
                          listed |-> Len(get_unread_job_emails(mailbox, MaxResults, FALSE))]
                    ELSE NoValue
    /\ ck_result' = NoValue
    /\ UNCHANGED <<files, mailbox, scVars, rsVars, rvVars, rpVars, ixVars, notPipe>>

\* lines 29-52 for the next email: parse, look for the id, write the record.
\* g is what the Gateway returns; fail says where an exception is raised, if
\* anywhere: "read" in get_all_jobs, "write" in open(job_file, "w").
CheckParse(g, fail) ==
    /\ stage = "check"
    /\ ck_pc = "parse"
    /\ ck_emails # <<>>
    /\ LET msg == Head(ck_emails)
           email == mailbox[msg].email
           job_data == parse_email(email.subject, email.body, email.from, g)
           job_id == _generate_job_id(job_data)
           record == SetKey(job_data, "id", job_id)
       IN  IF fail = "read" \/ (fail = "write" /\ ~AlreadyStored(files, job_id))
           THEN /\ ck_event' = Printed(msg, "error", NoValue)
                /\ ck_emails' = Tail(ck_emails)
                /\ UNCHANGED <<files, ck_pc, ck_count>>
           ELSE IF AlreadyStored(files, job_id)
           THEN /\ ck_event' = Printed(msg, "duplicate", job_data)
                /\ ck_pc' = "mark"
                /\ UNCHANGED <<files, ck_emails, ck_count>>
           ELSE /\ files' = WriteFile(files, job_id, record)
                /\ ck_count' = ck_count + 1
                /\ ck_event' = Printed(msg, "parsed", record)
                /\ ck_pc' = "mark"
                /\ UNCHANGED ck_emails
    /\ UNCHANGED <<mailbox, stage, ck_result, scVars, rsVars, rvVars, rpVars, ixVars, notPipe>>

mark_as_read_noop(box, msg, outcome) == box

\* GmailClient.mark_as_read: the mailbox after it; the UNREAD label is removed
\* when the API call works
mark_as_read(box, msg, outcome) ==
    IF outcome = "ok" THEN [box EXCEPT ![msg].unread = FALSE] ELSE box

\* GmailClient.mark_as_read for the email just stored or skipped (lines 42
\* and 55): the API call works ("ok"), raises HttpError, which mark_as_read
\* logs and swallows, or raises something else ("raise"), which the loop's
\* except clause logs
CheckMark(outcome) ==
    /\ stage = "check"
    /\ ck_pc = "mark"
    /\ LET msg == Head(ck_emails)
       IN  /\ mailbox' = mark_as_read(mailbox, msg, outcome)
           /\ ck_event' = Printed(msg,
                            CASE outcome = "ok" -> "marked"
                              [] outcome = "HttpError" -> "mark_error"
                              [] OTHER -> "error", ck_event.job)
    /\ ck_emails' = Tail(ck_emails)
    /\ ck_pc' = "parse"
    /\ UNCHANGED <<files, stage, ck_count, ck_result, scVars, rsVars, rvVars, rpVars, ixVars, notPipe>>

\* lines 60-61: the loop is over, parsed_count is returned
CheckReturn ==
    /\ stage = "check"
    /\ ck_pc = "parse"
    /\ ck_emails = <<>>
    /\ ck_result' = ck_count
    /\ stage' = "idle"
    /\ ck_event' = NoValue
    /\ UNCHANGED <<files, mailbox, ck_emails, ck_pc, ck_count, scVars, rsVars, rvVars, rpVars, ixVars, notPipe>>

----------------------------------------------------------------------------
(* main.py: score_jobs *)

\* the listings Path.glob can give of a directory: its files in any order
GlobOrders(dir) ==
    LET names == DOMAIN dir
        n == Cardinality(names)
    IN  {order \in [1..n -> names] : \A i, j \in 1..n : order[i] = order[j] => i = j}

\* Storage.get_all_jobs, the directory being listed in the given order
get_all_jobs(dir, order) == [i \in 1..Len(order) |-> dir[order[i]]]

UnscoredNoScoreOnly(job) == "score" \notin DOMAIN job

\* line 80: "score" not in job or job.get("score") == 0
Unscored(job) == "score" \notin DOMAIN job \/ job["score"] = 0

FullScoring(v) ==
    [k \in ScoringKeys |->
        CASE k = "score" -> v
          [] k = "reasoning" -> Lit("r", 40)
          [] k = "skill_match_score" -> JInt(35)
          [] k \in SubScoreKeys -> JInt(8)
          [] OTHER -> Skills(1)]

\* what the model can put under "score": in and out of range, fractional,
\* not finite, and not a number at all
ScoreValues ==
    { JInt(85), JInt(0), JInt(-5), JInt(150), JInt(100),
      JFloat("finite", 85), JFloat("finite", 0), JFloat("finite", 250),
      JFloat("nan", 0), JFloat("inf", 0), JFloat("-inf", 0),
      JStr(TRUE, 85), JStr(TRUE, 150), JStr(FALSE, 0),
      JBool(TRUE), JOther("null"), JOther("list"), JOther("dict") }

\* what parse_structured hands score_job in a score run
ScoreGatewayResults ==
    {FullScoring(v) : v \in ScoreValues}
        \cup { [k \in ScoringKeys \ {"score"} |-> FullScoring(JInt(0))[k]],
               [k \in {"score"} |-> JInt(85)],
               ErrorSentinel("JSONDecodeError", <<Run("x", 5)>>) }

ResumeTexts == {<<>>, <<W(40)>>}

ResumeGatewayResults ==
    { ResumeAnswer(ResumeKeys), ErrorSentinel("JSONDecodeError", <<Run("x", 5)>>) }

\* except Exception around parse_resume in score_jobs (lines 70-75),
\* generate_materials (lines 187-191) and refresh_resume (lines 225-233)
resume_error_caught(command) == TRUE

\* main, lines 308-333: the status the process ends with when the command
\* function returned or raised
ExitStatus(raised) == [status |-> IF raised THEN 1 ELSE 0]

\* score_jobs, lines 66-89: the resume is loaded and the unscored jobs are
\* collected. resume_text is what the Drive client returns and resume_gw what
\* the Gateway returns if parse_resume gets that far; order is the glob order;
\* read_fails says whether get_all_jobs raises.
ScoreStart(resume_text, resume_gw, order, read_fails) ==
    /\ stage = "idle"
    /\ LET r == parse_resume(resume_cache, FALSE, config_resume_id, resume_text, resume_gw)
           jobs == get_all_jobs(files, order)
           unscored_jobs == SelectSeq(jobs, Unscored)
       IN  /\ resume_cache' = r.cache
           /\ rp_call' = ResumeCall(resume_cache, FALSE, config_resume_id, resume_text, resume_gw)
           /\ IF r.raises
              THEN /\ sc_event' = [ev |-> "resume_error"]
                   /\ main_exit' = ExitStatus(~resume_error_caught("score"))
                   /\ UNCHANGED <<stage, sc_queue, sc_resume, sc_count>>
              ELSE IF read_fails
              THEN /\ sc_event' = [ev |-> "crash"]
                   /\ main_exit' = ExitStatus(TRUE)
                   /\ UNCHANGED <<stage, sc_queue, sc_resume, sc_count>>
              ELSE IF unscored_jobs = <<>>
              THEN /\ sc_event' = [ev |-> "all_scored"]
                   /\ main_exit' = ExitStatus(FALSE)
                   /\ UNCHANGED <<stage, sc_queue, sc_resume, sc_count>>
              ELSE /\ stage' = "score"
                   /\ sc_queue' = unscored_jobs
                   /\ sc_resume' = r.val
                   /\ sc_count' = 0
                   /\ sc_event' = NoValue
                   /\ main_exit' = NoValue
    /\ UNCHANGED <<files, mailbox, config_resume_id, gn_done, ckVars, rsVars, rvVars, ixVars, notPipe>>

ScoredJobRetitled(job, scoring_result) ==
    [k \in (DOMAIN job) \cup {"score", "scoring"} |->
        CASE k = "score" -> scoring_result["score"]
          [] k = "scoring" -> scoring_result
          [] k = "title" -> Get(scoring_result, "job_title", <<>>) \o <<Sp>>
          [] OTHER -> job[k]]

\* lines 93-94: job["score"] and job["scoring"] are set
ScoredJob(job, scoring_result) ==
    [k \in (DOMAIN job) \cup {"score", "scoring"} |->
        CASE k = "score" -> scoring_result["score"]
          [] k = "scoring" -> scoring_result
          [] OTHER -> job[k]]

\* lines 91-107 for the next unscored job: g is what the Gateway returns,
\* write_fails whether open(job_file, "w") raises
ScoreJob(g, write_fails) ==
    /\ stage = "score"
    /\ sc_queue # <<>>
    /\ LET job == Head(sc_queue)
           r == score_job(sc_resume, job, g)
       IN  IF r.raises
           THEN /\ sc_event' = [ev |-> "score_error", id |-> job["id"], gateway |-> g]
                /\ UNCHANGED <<files, sc_count>>
           ELSE IF write_fails
           THEN /\ sc_event' = [ev |-> "write_error", id |-> job["id"], gateway |-> g]
                /\ UNCHANGED <<files, sc_count>>
           ELSE /\ files' = WriteFile(files, job["id"], ScoredJob(job, r.val))
                /\ sc_count' = sc_count + 1
                /\ sc_event' = [ev |-> "scored", id |-> job["id"], gateway |-> g]
    /\ sc_queue' = Tail(sc_queue)
    /\ UNCHANGED <<mailbox, stage, resume_cache, config_resume_id, sc_resume, ckVars, rsVars,
                   rvVars, rpVars, ixVars, notPipe>>

\* line 109: the loop is over
ScoreReturn ==
    /\ stage = "score"
    /\ sc_queue = <<>>
    /\ stage' = "idle"
    /\ sc_event' = NoValue
    /\ sc_resume' = NoValue
    /\ main_exit' = ExitStatus(FALSE)
    /\ UNCHANGED <<files, mailbox, resume_cache, config_resume_id, sc_queue, sc_count,
                   rp_call, gn_done, ckVars, rsVars, rvVars, ixVars, notPipe>>

ScoreNext ==
    \/ /\ stage = "idle"
       /\ \E t \in ResumeTexts, rg \in ResumeGatewayResults, order \in GlobOrders(files),
             read_fails \in BOOLEAN :
              ScoreStart(t, rg, order, read_fails)
    \/ /\ stage = "score"
       /\ \E g \in ScoreGatewayResults, write_fails \in BOOLEAN : ScoreJob(g, write_fails)
    \/ ScoreReturn

----------------------------------------------------------------------------
(* company_researcher.py: CompanyResearcher.research_company *)

MaxUrls == 5

ContentLimit == 2000

Unknown == Lit("Unknown", 7)

\* the keys the research prompt asks for
CompanyKeys ==
    {"company", "summary", "tech_stack", "values", "recent_news", "culture",
     "size", "industry", "funding_stage"}

\* _search_company: the results, or [] when the search raises
_search_company(search) == IF search.raises THEN <<>> ELSE search.results

\* _fetch_url_content: the page text, or "" when the request raises
_fetch_url_content(fetch) == IF fetch.raises THEN <<>> ELSE fetch.text

\* lines 21-33: the pages that gave some text, in the order of the results;
\* fetches[i] is what happens when result i is requested
RECURSIVE UrlContents(_, _, _)
UrlContents(results, fetches, i) ==
    IF i > Len(results) THEN <<>>
    ELSE LET content == _fetch_url_content(fetches[i])
             rest == UrlContents(results, fetches, i + 1)
         IN  IF content # <<>>
             THEN <<[url |-> results[i].href,
                     title |-> Get(results[i], "title", <<>>),
                     content |-> STake(content, ContentLimit)]>> \o rest
             ELSE rest

\* [item["url"] for item in url_contents]
Sources(url_contents) == [i \in 1..Len(url_contents) |-> url_contents[i].url]

NoInformationAllUnknown(company_name) ==
    [k \in CompanyKeys \cup {"sources"} |->
        CASE k = "company" -> company_name
          [] k \in {"tech_stack", "values", "recent_news", "sources"} -> <<>>
          [] OTHER -> Unknown]

\* lines 35-43: the profile returned when no page gave any text
NoInformation(company_name) ==
    [k \in {"company", "summary", "tech_stack", "values", "recent_news", "culture"} |->
        CASE k = "company" -> company_name
          [] k = "summary" -> Lit("No information found", 20)
          [] k = "culture" -> Unknown
          [] OTHER -> <<>>]

\* lines 87-101: the profile returned when the Gateway result holds "error"
FailedResearch(company_name, research_result, url_contents) ==
    [k \in CompanyKeys \cup {"sources", "error"} |->
        CASE k = "company" -> company_name
          [] k = "summary" -> SCat(Lit("Research failed: ", 17), Format(research_result["error"]))
          [] k \in {"tech_stack", "values", "recent_news"} -> <<>>
          [] k = "sources" -> Sources(url_contents)
          [] k = "error" -> research_result["error"]
          [] OTHER -> Unknown]

\* research_company(company_name, max_urls): search is what the web search
\* does, fetches what each page request does, research_result what
\* parse_structured returns if it is called. Gives the profile and the number
\* of Gateway calls made.
research_company(company_name, max_urls, search, fetches, research_result) ==
    LET search_results == _search_company(search)
        taken == SubSeq(search_results, 1, Min(Len(search_results), max_urls))
        url_contents == UrlContents(taken, fetches, 1)
    IN  IF url_contents = <<>>
            THEN [val |-> NoInformation(company_name), gateway_calls |-> 0,
                  pages |-> 0]
        ELSE IF "error" \in DOMAIN research_result
            THEN [val |-> FailedResearch(company_name, research_result, url_contents),
                  gateway_calls |-> 1, pages |-> Len(url_contents)]
        ELSE [val |-> [k \in (DOMAIN research_result) \cup
                              {"company", "tech_stack", "values", "recent_news", "sources"} |->
                          CASE k = "sources" -> Sources(url_contents)
                            [] k \in DOMAIN research_result -> research_result[k]
                            [] k = "company" -> company_name
                            [] OTHER -> <<>>],
              gateway_calls |-> 1, pages |-> Len(url_contents)]

----------------------------------------------------------------------------
(* main.py: research_high_scoring *)

MIN_SCORE_FOR_RESEARCH == 70

\* Storage.get_high_scoring_jobs, the directory being listed in the given order
get_high_scoring_jobs(dir, order, min_score) ==
    SelectSeq(get_all_jobs(dir, order), LAMBDA job : Get(job, "score", 0) >= min_score)

SearchResult(i) == [href |-> <<Scheme, Run("p", i)>>, title |-> Lit("t", 10)]

\* what the web search can do: raise, find nothing, find one or two pages,
\* the second without a title
SearchOutcomes ==
    { [raises |-> TRUE, results |-> <<>>],
      [raises |-> FALSE, results |-> <<>>],
      [raises |-> FALSE, results |-> <<SearchResult(1)>>],
      [raises |-> FALSE, results |-> <<SearchResult(1), [href |-> <<Scheme, Run("p", 2)>>]>>] }

\* what a page request can do: raise, give a blank page, a short or a long one
FetchOutcomes ==
    { [raises |-> TRUE, text |-> <<>>],
      [raises |-> FALSE, text |-> <<>>],
      [raises |-> FALSE, text |-> <<W(300)>>],
      [raises |-> FALSE, text |-> <<W(2500)>>] }

CompanyAnswer(keys) ==
    [k \in keys |->
        CASE k = "company" -> Lit("C", 8)
          [] k \in {"tech_stack", "values", "recent_news"} -> Skills(1)
          [] OTHER -> Lit("x", 30)]

\* what parse_structured hands research_company
ResearchGatewayResults ==
    { CompanyAnswer(CompanyKeys),
      CompanyAnswer({"company"}),
      CompanyAnswer({"summary", "culture", "tech_stack"}),
      ErrorSentinel("JSONDecodeError", <<Run("x", 5)>>) }

\* research_high_scoring, lines 169-179: the high-scoring jobs are collected
ResearchStart(order) ==
    /\ stage = "idle"
    /\ LET jobs == get_high_scoring_jobs(files, order, MIN_SCORE_FOR_RESEARCH)
       IN  IF jobs = <<>>
           THEN /\ rs_event' = [ev |-> "none"]
                /\ UNCHANGED <<stage, rs_queue, rs_done, rs_calls, rs_errors>>
           ELSE /\ stage' = "research"
                /\ rs_queue' = jobs
                /\ rs_done' = {}
                /\ rs_calls' = <<>>
                /\ rs_errors' = 0
                /\ rs_event' = NoValue
    /\ UNCHANGED <<files, mailbox, ckVars, scVars, rvVars, rpVars, ixVars, notPipe>>

NeverResearched(company, researched_companies) == FALSE

\* line 183: company in researched_companies
AlreadyResearched(company, researched_companies) == company \in researched_companies

\* lines 181-200 for the next job: its company is researched unless it has
\* none or was researched in this run; write_fails says whether
\* open(job_file, "w") raises
ResearchJob(search, fetches, g, write_fails) ==
    /\ stage = "research"
    /\ rs_queue # <<>>
    /\ LET job == Head(rs_queue)
           company == Get(job, "company", <<>>)
           r == research_company(company, MaxUrls, search, fetches, g)
       IN  IF Falsy(company) \/ AlreadyResearched(company, rs_done)
           THEN /\ rs_event' = [ev |-> "skipped", id |-> job["id"]]
                /\ UNCHANGED <<files, rs_done, rs_calls, rs_errors>>
           ELSE /\ rs_done' = rs_done \cup {company}
                /\ rs_calls' = Append(rs_calls, company)
                /\ IF write_fails
                   THEN /\ rs_event' = [ev |-> "error", id |-> job["id"]]
                        /\ rs_errors' = rs_errors + 1
                        /\ UNCHANGED files
                   ELSE /\ files' = WriteFile(files, job["id"],
                                              SetKey(job, "company_research", r.val))
                        /\ rs_event' = [ev |-> "researched", id |-> job["id"],
                                        pages |-> r.pages, gateway_calls |-> r.gateway_calls]
                        /\ UNCHANGED rs_errors
    /\ rs_queue' = Tail(rs_queue)
    /\ UNCHANGED <<mailbox, stage, ckVars, scVars, rvVars, rpVars, ixVars, notPipe>>

\* line 202: the loop is over
ResearchReturn ==
    /\ stage = "research"
    /\ rs_queue = <<>>
    /\ stage' = "idle"
    /\ rs_event' = [ev |-> "done", errors |-> rs_errors]
    /\ rs_done' = {}
    /\ rs_calls' = <<>>
    /\ rs_errors' = 0
    /\ UNCHANGED <<files, mailbox, rs_queue, ckVars, scVars, rvVars, rpVars, ixVars, notPipe>>

ResearchNext ==
    \/ /\ stage = "idle"
       /\ \E order \in GlobOrders(files) : ResearchStart(order)
    \/ /\ stage = "research"
       /\ \E search \in SearchOutcomes, g \in ResearchGatewayResults, write_fails \in BOOLEAN :
              \E fetches \in [1..Len(search.results) -> FetchOutcomes] :
                  ResearchJob(search, fetches, g, write_fails)
    \/ ResearchReturn

----------------------------------------------------------------------------
(* main.py: review_jobs *)

\* the sort key: x.get("score", 0)
ScoreOf(job) == Get(job, "score", 0)

\* x put into a list sorted by descending score, behind every job whose score
\* is not lower
RECURSIVE InsertByScore(_, _)
InsertByScore(sorted, x) ==
    IF sorted = <<>> THEN <<x>>
    ELSE IF ScoreOf(Head(sorted)) >= ScoreOf(x)
         THEN <<Head(sorted)>> \o InsertByScore(Tail(sorted), x)
         ELSE <<x>> \o sorted

RECURSIVE SortedFrom(_, _, _)
SortedFrom(jobs, i, acc) ==
    IF i > Len(jobs) THEN acc ELSE SortedFrom(jobs, i + 1, InsertByScore(acc, jobs[i]))

Unsorted(jobs) == jobs

\* jobs.sort(key=lambda x: x.get("score", 0), reverse=True): a stable sort,
\* jobs of equal score keep their order
sort_by_score_reverse(jobs) == SortedFrom(jobs, 1, <<>>)

\* the jobs review_jobs(min_score) prints, in the order it prints them;
\* min_score is NoValue when --min-score is not given
review_jobs(dir, order, min_score) ==
    LET jobs == get_all_jobs(dir, order)
    IN  IF min_score # NoValue
        THEN sort_by_score_reverse(SelectSeq(jobs, LAMBDA job : ScoreOf(job) >= min_score.m))
        ELSE jobs

\* --min-score m
MinScore(m) == [m |-> m]

MinScores == {NoValue} \cup {MinScore(m) : m \in {-1, 0, 50, 80, 100}}

\* the review command runs
Review(order) ==
    /\ stage = "idle"
    /\ rv_listing = NoValue
    /\ rv_listing' = [jobs |-> review_jobs(files, order, rv_min)]
    /\ UNCHANGED <<files, mailbox, stage, rv_min, ckVars, scVars, rsVars, rpVars, ixVars, notPipe>>

ReviewNext == \E order \in GlobOrders(files) : Review(order)

----------------------------------------------------------------------------
(* main.py: refresh_resume and generate_materials *)

\* refresh_resume: parse_resume(force_refresh=True), an exception of it being
\* printed
RefreshResume(resume_text, resume_gw) ==
    /\ stage = "idle"
    /\ LET r == parse_resume(resume_cache, TRUE, config_resume_id, resume_text, resume_gw)
       IN  /\ resume_cache' = r.cache
           /\ rp_call' = ResumeCall(resume_cache, TRUE, config_resume_id, resume_text, resume_gw)
           /\ main_exit' = ExitStatus(r.raises /\ ~resume_error_caught("refresh-resume"))
    /\ UNCHANGED <<files, mailbox, stage, config_resume_id, sc_queue, sc_resume, sc_count,
                   sc_event, gn_done, ckVars, rsVars, rvVars, ixVars, notPipe>>

MIN_SCORE_FOR_NOTIFICATION == 80

\* Storage.get_job: the record of the file <job_id>.json, None when there is none
get_job(dir, job_id) == IF job_id \in DOMAIN dir THEN dir[job_id] ELSE NoValue

\* an id no record has
NoSuchId == md5_12(<<>>)

\* lines 170-180: the jobs generate_materials works on
JobsToGenerate(dir, order, job_id) ==
    IF job_id # NoValue
    THEN IF get_job(dir, job_id) = NoValue THEN <<>> ELSE <<get_job(dir, job_id)>>
    ELSE get_high_scoring_jobs(dir, order, MIN_SCORE_FOR_NOTIFICATION)

\* lines 197-214: what the loop prints for each job; outcomes[i] says whether
\* generating or saving the materials of job i raises
GenerateLoop(jobs, outcomes) ==
    [i \in 1..Len(jobs) |->
        [id |-> jobs[i]["id"], ev |-> IF outcomes[i] = "raise" THEN "error" ELSE "generated"]]

\* generate_materials(job_id): job_id is NoValue when --job-id is not given
Generate(job_id, order, resume_text, resume_gw, outcomes) ==
    /\ stage = "idle"
    /\ LET jobs == JobsToGenerate(files, order, job_id)
           r == parse_resume(resume_cache, FALSE, config_resume_id, resume_text, resume_gw)
       IN  IF jobs = <<>>
           THEN /\ gn_done' = <<[ev |-> IF job_id # NoValue THEN "not_found" ELSE "none"]>>
                /\ main_exit' = ExitStatus(FALSE)
                /\ rp_call' = NoValue
                /\ UNCHANGED resume_cache
           ELSE /\ resume_cache' = r.cache
                /\ rp_call' = ResumeCall(resume_cache, FALSE, config_resume_id,
                                         resume_text, resume_gw)
                /\ main_exit' = ExitStatus(r.raises /\ ~resume_error_caught("generate"))
                /\ gn_done' = IF r.raises THEN <<[ev |-> "resume_error"]>>
                              ELSE GenerateLoop(jobs, SubSeq(outcomes, 1, Len(jobs)))
    /\ UNCHANGED <<files, mailbox, stage, config_resume_id, sc_queue, sc_resume, sc_count,
                   sc_event, ckVars, rsVars, rvVars, ixVars, notPipe>>

GenerateNext ==
    /\ stage = "idle"
    /\ \E job_id \in {NoValue, NoSuchId} \cup DOMAIN files, order \in GlobOrders(files),
          t \in ResumeTexts, rg \in ResumeGatewayResults,
          outcomes \in [1..2 -> {"ok", "raise"}] :
           Generate(job_id, order, t, rg, outcomes)

\* the commands that load the resume: score, generate and refresh-resume
ResumeNext ==
    \/ /\ stage = "idle"
       /\ \E t \in ResumeTexts, rg \in ResumeGatewayResults, order \in GlobOrders(files),
             read_fails \in BOOLEAN :
              ScoreStart(t, rg, order, read_fails)
    \/ \E t \in ResumeTexts, rg \in ResumeGatewayResults : RefreshResume(t, rg)
    \/ GenerateNext

----------------------------------------------------------------------------
(* Storage._generate_job_id on its own *)

\* jobs that share or differ in title, company, url and in their other fields
IdJobs ==
    { [k \in T \cup {"company"} \cup U \cup X |->
          CASE k = "title" -> t
            [] k = "company" -> c
            [] k = "url" -> u
            [] k = "description" -> Lit("d", 300)
            [] k = "score" -> 85
            [] k = "source" -> Lit("Indeed", 6)] :
        T \in {{}, {"title"}}, U \in {{}, {"url"}}, X \in {{}, {"description", "score", "source"}},
        t \in {<<Ch("a"), Ch("b")>>, <<Ch("a")>>},
        c \in {<<Ch("c")>>, <<Ch("b"), Ch("c")>>, JNull, Lit("None", 4)},
        u \in {<<>>, <<Scheme, Ch("u")>>} }

IdIdle ==
    /\ id_a = NoValue
    /\ id_b = NoValue
    /\ id_out = NoValue

\* the ids of the two jobs are derived
IdCall ==
    /\ id_a # NoValue
    /\ id_out = NoValue
    /\ id_out' = [a |-> _generate_job_id(id_a), b |-> _generate_job_id(id_b)]
    /\ UNCHANGED <<id_a, id_b, notId>>

IdNext == IdCall

\* no command is running
StagesIdle ==
    /\ stage = "idle"
    /\ ck_emails = <<>>
    /\ ck_pc = "parse"
    /\ ck_count = 0
    /\ ck_event = NoValue
    /\ ck_result = NoValue
    /\ sc_queue = <<>>
    /\ sc_resume = NoValue
    /\ sc_count = 0
    /\ sc_event = NoValue
    /\ rs_queue = <<>>
    /\ rs_done = {}
    /\ rs_calls = <<>>
    /\ rs_errors = 0
    /\ rs_event = NoValue
    /\ rv_min = NoValue
    /\ rv_listing = NoValue
    /\ rp_call = NoValue
    /\ main_exit = NoValue
    /\ gn_done = <<>>
    /\ collection = NoIndex

\* a fresh installation: no record, no mail, no resume cache
PipeIdle ==
    /\ files = NoFiles
    /\ mailbox = <<>>
    /\ resume_cache = NoValue
    /\ StagesIdle

Next ==
    \/ \E e \in CheckEmails : Deliver(e)
    \/ \E list_fails \in BOOLEAN, get_fails \in 0..MaxMsgs : CheckStart(list_fails, get_fails)
    \/ \E g \in CheckGatewayResults, fail \in {"none", "read", "write"} : CheckParse(g, fail)
    \/ \E outcome \in {"ok", "HttpError", "raise"} : CheckMark(outcome)
    \/ CheckReturn

----------------------------------------------------------------------------
(* Specifications *)

GatewayInit == GwIdle /\ PeIdle /\ IdIdle /\ PipeIdle /\ config_resume_id = TRUE

\* parse_structured, one model call at a time
SpecGateway == GatewayInit /\ [][GwNext]_vars

ParseEmailInit ==
    /\ GwIdle
    /\ IdIdle
    /\ PipeIdle
    /\ config_resume_id = TRUE
    /\ pe_email \in PeEmails
    /\ pe_gateway \in PeGatewayResults
    /\ pe_result = NoValue

\* parse_email applied to every email and Gateway result of the input sets
SpecParseEmail == ParseEmailInit /\ [][PeNext]_vars

\* the resume profile parse_resume caches for a resume and a Gateway result
Profile(resume_gw) == parse_resume(NoValue, FALSE, TRUE, <<W(40)>>, resume_gw).val

\* the record score_jobs writes for a job and a Gateway result
Scored(job, g) == ScoredJob(job, score_job(Profile(ResumeAnswer(ResumeKeys)), job, g).val)

\* the record research_high_scoring writes for a job, one short page being
\* found and the Gateway answering g
Researched(job, g) ==
    SetKey(job, "company_research",
           research_company(job["company"], MaxUrls,
                            [raises |-> FALSE, results |-> <<SearchResult(1)>>],
                            <<[raises |-> FALSE, text |-> <<W(300)>>]>>, g).val)

FirstEmail == CHOOSE e \in CheckEmails : e.body # <<W(30)>>

SecondEmail == CHOOSE e \in CheckEmails : e.body = <<W(30)>>

\* the stores the check command can find: a fresh one, or one holding a
\* record that was scored and researched since it was ingested
CheckStores ==
    LET r == Ingested(FirstEmail, Posting(<<Ch("a"), Ch("b")>>, <<Ch("c")>>, <<Scheme, Ch("u")>>))
        done == Researched(Scored(r, FullScoring(JInt(85))), CompanyAnswer(CompanyKeys))
    IN  {NoFiles, WriteFile(NoFiles, done["id"], done)}

Init ==
    /\ GwIdle
    /\ PeIdle
    /\ IdIdle
    /\ StagesIdle
    /\ mailbox = <<>>
    /\ files \in CheckStores
    /\ resume_cache = NoValue
    /\ config_resume_id = TRUE

\* mail arrives and the check command runs, again and again
Spec == Init /\ [][Next]_vars

\* the stores the score command can find: records the check command wrote
ScoreStores ==
    LET recs == {Ingested(e, g) : e \in CheckEmails, g \in CheckGatewayResults}
    IN  {NoFiles} \cup
        {WriteFile(NoFiles, r["id"], r) : r \in recs} \cup
        {WriteFile(WriteFile(NoFiles, r1["id"], r1), r2["id"], r2) :
            r1 \in {r \in recs : r["company"] = <<Ch("c")>>},
            r2 \in {r \in recs : r["company"] # <<Ch("c")>>}}

ScoreInit ==
    /\ GwIdle
    /\ PeIdle
    /\ IdIdle
    /\ StagesIdle
    /\ mailbox = <<>>
    /\ files \in ScoreStores
    /\ resume_cache \in {NoValue, EmptyDict}
    /\ config_resume_id \in BOOLEAN

\* the score command runs, again and again, on a store the check command filled
SpecScore == ScoreInit /\ [][ScoreNext]_vars

\* the stores the research command can find: records the check command wrote
\* and the score command scored, high and low, two of them of one company
ResearchStores ==
    LET a == Ingested(FirstEmail, Posting(<<Ch("a"), Ch("b")>>, <<Ch("c")>>, <<Scheme, Ch("u")>>))
        b == Ingested(FirstEmail, Posting(<<Ch("a"), Ch("b")>>, <<Ch("c")>>, <<>>))
        c == Ingested(SecondEmail, Answer({"company", "description"}))
        d == Ingested(SecondEmail, ErrorSentinel("JSONDecodeError", <<Run("x", 5)>>))
        a85 == Scored(a, FullScoring(JInt(85)))
        b90 == Scored(b, FullScoring(JInt(90)))
        c70 == Scored(c, [k \in {"score"} |-> JInt(70)])
        d0 == Scored(d, ErrorSentinel("JSONDecodeError", <<Run("x", 5)>>))
        d99 == Scored(d, FullScoring(JInt(99)))
    IN  { NoFiles,
          WriteFile(NoFiles, a85["id"], a85),
          WriteFile(WriteFile(NoFiles, a85["id"], a85), b90["id"], b90),
          WriteFile(WriteFile(NoFiles, a85["id"], a85), c70["id"], c70),
          WriteFile(WriteFile(NoFiles, c70["id"], c70), d0["id"], d0),
          WriteFile(WriteFile(NoFiles, d99["id"], d99), c["id"], c) }

ResearchInit ==
    /\ GwIdle
    /\ PeIdle
    /\ IdIdle
    /\ StagesIdle
    /\ mailbox = <<>>
    /\ files \in ResearchStores
    /\ resume_cache \in {Profile(ResumeAnswer(ResumeKeys)),
                         Profile(ResumeAnswer({"skills", "experience_years"}))}
    /\ config_resume_id = TRUE

\* the research command runs, again and again, on a store of scored records
SpecResearch == ResearchInit /\ [][ResearchNext]_vars

\* the stores the review command can find: any of five records, scored 95,
\* 80, 80 and 0 and not scored
ReviewStores ==
    LET rec(i) == Ingested(FirstEmail, Posting(<<Ch("a"), Run("n", i)>>, <<Ch("c")>>, <<>>))
        s1 == Scored(rec(1), FullScoring(JInt(95)))
        s2 == Scored(rec(2), FullScoring(JInt(80)))
        s3 == Scored(rec(3), FullScoring(JFloat("finite", 80)))
        s4 == Scored(rec(4), FullScoring(JInt(-5)))
        s5 == rec(5)
    IN  { [id \in {r["id"] : r \in S} |-> CHOOSE r \in S : r["id"] = id] :
            S \in SUBSET {s1, s2, s3, s4, s5} }

ReviewInit ==
    /\ GwIdle
    /\ PeIdle
    /\ IdIdle
    /\ stage = "idle"
    /\ ck_emails = <<>>
    /\ ck_pc = "parse"
    /\ ck_count = 0
    /\ ck_event = NoValue
    /\ ck_result = NoValue
    /\ sc_queue = <<>>
    /\ sc_resume = NoValue
    /\ sc_count = 0
    /\ sc_event = NoValue
    /\ rs_queue = <<>>
    /\ rs_done = {}
    /\ rs_calls = <<>>
    /\ rs_errors = 0
    /\ rs_event = NoValue
    /\ rv_listing = NoValue
    /\ rp_call = NoValue
    /\ main_exit = NoValue
    /\ gn_done = <<>>
    /\ collection = NoIndex
    /\ mailbox = <<>>
    /\ resume_cache = NoValue
    /\ config_resume_id = TRUE
    /\ files \in ReviewStores
    /\ rv_min \in MinScores

\* the review command runs once on a store, with or without --min-score
SpecReview == ReviewInit /\ [][ReviewNext]_vars

JobIdInit ==
    /\ GwIdle
    /\ PeIdle
    /\ PipeIdle
    /\ config_resume_id = TRUE
    /\ id_a \in IdJobs
    /\ id_b \in IdJobs
    /\ id_out = NoValue

\* _generate_job_id applied to every pair of jobs of the input set
SpecJobId == JobIdInit /\ [][IdNext]_vars

\* the stores the commands that load the resume are run on: every record of
\* them is scored, one or two of them 80 or more
ResumeStores ==
    LET a == Ingested(FirstEmail, Posting(<<Ch("a"), Ch("b")>>, <<Ch("c")>>, <<Scheme, Ch("u")>>))
        b == Ingested(FirstEmail, Posting(<<Ch("a"), Ch("b")>>, <<Ch("c")>>, <<>>))
        a85 == Scored(a, FullScoring(JInt(85)))
        b90 == Scored(b, FullScoring(JInt(90)))
        b50 == Scored(b, FullScoring(JInt(50)))
    IN  { NoFiles,
          WriteFile(WriteFile(NoFiles, a85["id"], a85), b50["id"], b50),
          WriteFile(WriteFile(NoFiles, a85["id"], a85), b90["id"], b90) }

ResumeInit ==
    /\ GwIdle
    /\ PeIdle
    /\ IdIdle
    /\ StagesIdle
    /\ mailbox = <<>>
    /\ files \in ResumeStores
    /\ resume_cache \in {NoValue, EmptyDict, Profile(ResumeAnswer(ResumeKeys))}
    /\ config_resume_id \in BOOLEAN

\* score, generate and refresh-resume run, again and again, on a store of
\* scored records
SpecResume == ResumeInit /\ [][ResumeNext]_vars

\* two job alerts wait unread, the store is empty and the resume is cached
PipelineInit ==
    /\ GwIdle
    /\ PeIdle
    /\ IdIdle
    /\ StagesIdle
    /\ mailbox = <<[email |-> FirstEmail, unread |-> TRUE],
                   [email |-> SecondEmail, unread |-> TRUE]>>
    /\ files = NoFiles
    /\ resume_cache = Profile(ResumeAnswer(ResumeKeys))
    /\ config_resume_id = TRUE

\* what the Gateway returns in the runs of the three stages
PipelinePostings ==
    { Posting(<<Ch("a"), Ch("b")>>, <<Ch("c")>>, <<Scheme, Ch("u")>>),
      Posting(<<Ch("a"), Ch("b")>>, <<Ch("c")>>, <<>>),
      ErrorSentinel("JSONDecodeError", <<Run("x", 5)>>) }

PipelineScorings ==
    { FullScoring(JInt(85)), ErrorSentinel("JSONDecodeError", <<Run("x", 5)>>) }

PipelineProfiles ==
    { CompanyAnswer(CompanyKeys), ErrorSentinel("JSONDecodeError", <<Run("x", 5)>>) }

\* check, score and research-high run in any order, again and again
PipelineNext ==
    \/ CheckStart(FALSE, 0)
    \/ \E g \in PipelinePostings : CheckParse(g, "none")
    \/ CheckMark("ok")
    \/ CheckReturn
    \/ /\ stage = "idle"
       /\ \E order \in GlobOrders(files) :
              ScoreStart(<<W(40)>>, ResumeAnswer(ResumeKeys), order, FALSE)
    \/ /\ stage = "score"
       /\ \E g \in PipelineScorings, write_fails \in BOOLEAN : ScoreJob(g, write_fails)
    \/ ScoreReturn
    \/ /\ stage = "idle"
       /\ \E order \in GlobOrders(files) : ResearchStart(order)
    \/ /\ stage = "research"
       /\ \E g \in PipelineProfiles, write_fails \in BOOLEAN :
              ResearchJob([raises |-> FALSE, results |-> <<SearchResult(1)>>],
                          <<[raises |-> FALSE, text |-> <<W(300)>>]>>, g, write_fails)
    \/ ResearchReturn

SpecPipeline == PipelineInit /\ [][PipelineNext]_vars

----------------------------------------------------------------------------
(* Properties of parse_structured *)

\* the call did not yield a JSON object: llm.invoke raised, or the try block
\* found no object in the reply
YieldsNoObject(o) == o.raise \/ TryBody(o.text).out # "return"

\* C1: when every model call of parse_structured(prompt) fails to yield a
\* JSON object, parse_structured makes exactly MaxRetries (3) model calls,
\* each with the identical prompt, and then returns a mapping holding the key
\* "error"; it never raises.
C1_RetryBound ==
    /\ gw_pc # "raised"
    /\ (gw_pc = "loop" /\ \A i \in 1..Len(gw_replies) : YieldsNoObject(gw_replies[i]))
           => Len(gw_sent) < MaxRetries
    /\ (gw_pc = "returned" /\ \A i \in 1..Len(gw_replies) : YieldsNoObject(gw_replies[i]))
           => /\ Len(gw_sent) = 3
              /\ \A i \in 1..Len(gw_sent) : gw_sent[i] = gw_prompt
              /\ "error" \in DOMAIN gw_result

C1_Witness ==
    /\ gw_pc = "returned"
    /\ Len(gw_replies) = 3
    /\ gw_replies[1] = Reply(<<Run("x", 5)>>)
    /\ gw_replies[2] = Raise
    /\ gw_replies[3] = Reply(<<Tok("{"), Run("x", 4), Tok("}")>>)
    /\ gw_sent = <<gw_prompt, gw_prompt, gw_prompt>>
    /\ "error" \in DOMAIN gw_result

----------------------------------------------------------------------------
(* Properties of parse_email *)

MinOf(S) == CHOOSE i \in S : \A j \in S : i <= j

MaxOf(S) == CHOOSE i \in S : \A j \in S : i >= j

\* s without the whitespace at its two ends
Trimmed(s) ==
    LET ink == {i \in 1..Len(s) : s[i].c # "s"}
    IN  IF ink = {} THEN <<>> ELSE SubSeq(s, MinOf(ink), MaxOf(ink))

\* s up to its first piece of one of the classes seps
Before(s, seps) ==
    LET at == {i \in 1..Len(s) : s[i].c \in seps}
    IN  IF at = {} THEN s ELSE SubSeq(s, 1, MinOf(at) - 1)

\* s without the leading chunk and the whitespace after it, if it starts with it
Without(s, chunk) ==
    IF s = <<>> \/ s[1].c # chunk THEN s
    ELSE IF Len(s) >= 2 /\ s[2].c = "s" THEN SubSeq(s, 3, Len(s))
    ELSE SubSeq(s, 2, Len(s))

RECURSIVE WithoutReplyPrefixes(_)
\* s without any leading Re:/Fwd: prefixes
WithoutReplyPrefixes(s) ==
    IF s # <<>> /\ s[1].c \in {"RE:", "FWD:"}
    THEN WithoutReplyPrefixes(Without(s, s[1].c))
    ELSE s

\* the title default as the specification words it: Re:/Fwd: prefixes
\* stripped, cut at the first dash- or colon-like separator, at most 100
\* characters
StatedTitle(subject) ==
    STake(Trimmed(Before(WithoutReplyPrefixes(subject), {"-", "|", ":"})), 100)

\* the title default of the code: one leading Re:, then one leading Fwd:/Fw:,
\* cut at the first pipe or dash, trimmed, at most 100 characters
CodeTitle(subject) ==
    STake(Trimmed(Before(Without(Without(subject, "RE:"), "FWD:"), {"-", "|"})), 100)

KeywordChunks == {"job", "JOB", "career", "CAREER", "apply", "position", "opening"}

NamesPosting(url) == \E i \in 1..Len(url) : url[i].c \in KeywordChunks

\* u is the first URL of the body that names a posting, else the first URL,
\* else the empty text
IsUrlDefault(u, body) ==
    LET urls == findall_urls(body)
    IN  IF urls = <<>> THEN u = <<>>
        ELSE \E i \in 1..Len(urls) :
                /\ u = urls[i]
                /\ \A j \in 1..(i - 1) : ~NamesPosting(urls[j])
                /\ NamesPosting(urls[i]) \/ (i = 1 /\ \A j \in 1..Len(urls) : ~NamesPosting(urls[j]))

Providers ==
    { <<"LinkedIn", {"linkedin", "LinkedIn"}>>, <<"Indeed", {"indeed", "Indeed"}>>,
      <<"Glassdoor", {"glassdoor"}>>, <<"ZipRecruiter", {"ziprecruiter"}>>,
      <<"Monster", {"monster"}>> }

\* v names a provider the sender mentions, or is "Unknown" when it mentions none
IsSourceDefault(v, sender) ==
    LET named == {p \in Providers : \E i \in 1..Len(sender) : sender[i].c \in p[2]}
    IN  /\ Len(v) = 1
        /\ IF named = {} THEN v[1].c = "Unknown" ELSE \E p \in named : v[1].c = p[1]

\* d is the first 500 characters of the body
IsDescriptionDefault(d, body) ==
    /\ SLen(d) = (IF SLen(body) < 500 THEN SLen(body) ELSE 500)
    /\ d = STake(body, SLen(d))

\* the six keys are present and each one the Gateway result lacks holds its
\* default, the title default being given by Title
Backfilled(Title(_)) ==
    pe_result # NoValue =>
        /\ JobKeys \subseteq DOMAIN pe_result
        /\ "title" \notin DOMAIN pe_gateway => pe_result["title"] = Title(pe_email.subject)
        /\ "company" \notin DOMAIN pe_gateway => pe_result["company"] = Lit("Unknown", 7)
        /\ "location" \notin DOMAIN pe_gateway => pe_result["location"] = Lit("Unknown", 7)
        /\ "url" \notin DOMAIN pe_gateway => IsUrlDefault(pe_result["url"], pe_email.body)
        /\ "source" \notin DOMAIN pe_gateway => IsSourceDefault(pe_result["source"], pe_email.from)
        /\ "description" \notin DOMAIN pe_gateway
               => IsDescriptionDefault(pe_result["description"], pe_email.body)

\* C7 as stated: for any Gateway result lacking any of title, company,
\* location, url, source, description, parse_email returns a record with all
\* six keys, each missing one holding its default, the title being the subject
\* with Re:/Fwd: prefixes stripped, cut at the first dash/colon-like separator
\* and capped at 100 characters.
C7_BackfillAsStated == Backfilled(StatedTitle)

\* C7 amended: as stated, but the title default is the subject with one
\* leading Re: and then one leading Fwd:/Fw: removed, cut at the first pipe or
\* dash (a colon does not cut), trimmed and capped at 100 characters.
C7_Backfill == Backfilled(CodeTitle)

\* scenario 1: "Senior Backend Engineer - Acme Corp" from linkedin with a
\* careers URL in the body, the Gateway having returned the error sentinel
C7_Witness ==
    /\ pe_result # NoValue
    /\ DOMAIN pe_gateway = {"error", "raw_response"}
    /\ pe_email.subject = <<W(6), Sp, W(7), Sp, W(8), Sp, Tok("-"), Sp, W(4), Sp, W(4)>>
    /\ pe_email.from = <<W(4), Tok("@"), Run("linkedin", 8), W(4)>>
    /\ pe_result["title"] = <<W(6), Sp, W(7), Sp, W(8)>>
    /\ pe_result["source"] = Lit("LinkedIn", 8)
    /\ pe_result["url"] = <<Scheme, W(9), Run("career", 6), W(5)>>
    /\ pe_result["company"] = Lit("Unknown", 7)
    /\ pe_result["description"] = pe_email.body

----------------------------------------------------------------------------
(* Properties of check_emails *)

\* what parse_email extracted of a record: everything but the id and what the
\* later stages attach
ParsedPart(record) ==
    [k \in (DOMAIN record) \ {"id", "score", "scoring", "company_research"} |-> record[k]]

\* C2: when check ingests an email whose extraction is already in the store
\* (the same email ingested before, the Gateway returning the same record),
\* the ingestion is reported as a duplicate and not counted as new, no file
\* is written, the store is exactly what it was, score, scoring and
\* company_research of the existing record included, and there is one record
\* file for that id.
C2_IdempotentIngestion ==
    [][ ( /\ stage = "check" /\ ck_pc = "parse" /\ ck_pc' = "mark"
          /\ \E f \in DOMAIN files : ParsedPart(files[f]) = ParsedPart(ck_event'.job) )
        => /\ ck_event'.ev = "duplicate"
           /\ files' = files
           /\ ck_count' = ck_count
           /\ Cardinality({f \in DOMAIN files' :
                              files'[f]["id"] = _generate_job_id(ck_event'.job)}) = 1
      ]_vars

\* the email of a record that has since been scored and researched is
\* ingested again and skipped as a duplicate
C2_Witness ==
    /\ ck_event # NoValue
    /\ ck_event.ev = "duplicate"
    /\ \E f \in DOMAIN files :
          /\ {"score", "scoring", "company_research"} \subseteq DOMAIN files[f]
          /\ ParsedPart(files[f]) = ParsedPart(ck_event.job)

\* the message the loop of check_emails is at
CurrentMessage == Head(ck_emails)

\* C3 as stated: every message check processes is marked read whatever the
\* outcome, also when parsing or storing it raised.
C3_MarkedReadAsStated ==
    [][ (stage = "check" /\ ck_emails # <<>> /\ ck_emails' = Tail(ck_emails))
        => ~mailbox'[CurrentMessage].unread ]_vars

\* C3: a message that check stored or skipped as a duplicate is handed to
\* mark_as_read next, which marks it read when the Gmail call works and
\* leaves it unread when the call fails; a message whose parsing or storing
\* raised is logged and left unread, mark_as_read not being called for it; in
\* every case the loop goes on to the next message.
C3_MarkedRead ==
    [][ (stage = "check" /\ ck_emails # <<>>)
        => /\ stage' = "check"
           /\ (ck_pc = "parse" /\ ck_pc' = "mark")
                 => /\ ck_event'.ev \in {"parsed", "duplicate"}
                    /\ ck_emails' = ck_emails
                    /\ mailbox' = mailbox
           /\ (ck_pc = "parse" /\ ck_pc' = "parse")
                 => /\ ck_event'.ev = "error"
                    /\ ck_emails' = Tail(ck_emails)
                    /\ mailbox' = mailbox
                    /\ mailbox[CurrentMessage].unread
           /\ ck_pc = "mark"
                 => /\ ck_pc' = "parse"
                    /\ ck_emails' = Tail(ck_emails)
                    /\ ck_event'.ev \in {"marked", "mark_error", "error"}
                    /\ IF ck_event'.ev = "marked"
                       THEN mailbox' = [mailbox EXCEPT ![CurrentMessage].unread = FALSE]
                       ELSE mailbox' = mailbox
      ]_vars

\* parsing or storing a message raised: it is logged and still unread, and
\* the loop is at the next message
C3_Witness ==
    /\ stage = "check"
    /\ ck_event # NoValue
    /\ ck_event.ev = "error"
    /\ ck_event.job = NoValue
    /\ mailbox[ck_event.msg].unread
    /\ ck_emails # <<>>
    /\ CurrentMessage # ck_event.msg

----------------------------------------------------------------------------
(* Properties of _generate_job_id *)

\* (title, company, url) of a job, an absent key counting as the empty text
Triple(job) == <<Get(job, "title", <<>>), Get(job, "company", <<>>), Get(job, "url", <<>>)>>

\* the three as _generate_job_id formats them: null reads "None"
FormattedTriple(job) == [i \in 1..3 |-> Format(Triple(job)[i])]

DifferInOne(s, t) == Cardinality({i \in 1..3 : s[i] # t[i]}) = 1

C5_OneRecordPerTriple ==
    (ck_event # NoValue /\ ck_event.ev = "duplicate")
        => \E f \in DOMAIN files : Triple(files[f]) = Triple(ck_event.job)

----------------------------------------------------------------------------
(* Properties of score_jobs *)

\* what C6 says is stored for a value the Gateway put under "score"
ClampedAsStated(s, v) ==
    CASE v.ty = "int" -> s = Max(0, Min(100, v.i))
      [] v.ty = "float" /\ v.kind = "finite" /\ v.trunc < 0 -> s = 0
      [] v.ty = "float" /\ v.kind = "finite" /\ v.trunc >= 100 -> s = 100
      [] v.ty = "str" /\ ~v.digits -> s = 0
      [] v.ty \in {"null", "list", "dict"} -> s = 0
      [] OTHER -> s \in 0..100

\* C6: after score_jobs has handled a record (the file write not failing),
\* the stored score is an integer in 0..100 whatever the Gateway put under
\* "score": below 0 gives 0, above 100 gives 100, non-numeric or absent gives 0.
C6_ScoreClamped ==
    (sc_event # NoValue /\ sc_event.ev \in {"scored", "score_error"}
        /\ "error" \notin DOMAIN sc_event.gateway)
        => LET record == files[sc_event.id]
           IN  /\ "score" \in DOMAIN record
               /\ record["score"] \in 0..100
               /\ IF "score" \in DOMAIN sc_event.gateway
                  THEN ClampedAsStated(record["score"], sc_event.gateway["score"])
                  ELSE record["score"] = 0

----------------------------------------------------------------------------
(* Properties of the records the stages leave *)

\* C8: every field the model is asked for is a key of the job record, of the
\* cached resume profile, of a scoring result and of a company profile made
\* from a Gateway result.
C8_PromptedFieldsPresent ==
    /\ \A f \in DOMAIN files :
          /\ JobKeys \cup ExtraJobKeys \subseteq DOMAIN files[f]
          /\ "scoring" \in DOMAIN files[f]
                => ScoringKeys \subseteq DOMAIN files[f]["scoring"]
          /\ ("company_research" \in DOMAIN files[f]
                /\ "sources" \in DOMAIN files[f]["company_research"])
                => CompanyKeys \subseteq DOMAIN files[f]["company_research"]
    /\ resume_cache # NoValue => ResumeKeys \subseteq DOMAIN resume_cache

----------------------------------------------------------------------------
(* Properties of research_company *)

\* the profile research_high_scoring has just written
WrittenProfile == files[rs_event.id]["company_research"]

NoPageFetched ==
    /\ rs_event # NoValue
    /\ rs_event.ev = "researched"
    /\ rs_event.pages = 0

\* C9 as stated: when no page gave any text, no Gateway call is made and in
\* the profile tech_stack, values, recent_news and sources are empty lists and
\* summary, culture, size, industry and funding_stage are "Unknown".
C9_DegradedProfileAsStated ==
    NoPageFetched =>
        /\ rs_event.gateway_calls = 0
        /\ \A k \in {"tech_stack", "values", "recent_news", "sources"} :
              k \in DOMAIN WrittenProfile /\ WrittenProfile[k] = <<>>
        /\ \A k \in {"summary", "culture", "size", "industry", "funding_stage"} :
              k \in DOMAIN WrittenProfile /\ WrittenProfile[k] = Lit("Unknown", 7)

\* C9: when no page gave any text, no Gateway call is made and the profile
\* holds exactly company (the name asked for), summary "No information
\* found", culture "Unknown" and empty lists tech_stack, values and
\* recent_news; it has no size, industry, funding_stage or sources.
C9_DegradedProfile ==
    NoPageFetched =>
        /\ rs_event.gateway_calls = 0
        /\ DOMAIN WrittenProfile =
              {"company", "summary", "tech_stack", "values", "recent_news", "culture"}
        /\ WrittenProfile["company"] = files[rs_event.id]["company"]
        /\ WrittenProfile["summary"] = Lit("No information found", 20)
        /\ WrittenProfile["culture"] = Lit("Unknown", 7)
        /\ \A k \in {"tech_stack", "values", "recent_news"} : WrittenProfile[k] = <<>>

\* a company was researched, no page gave any text, and the profile was written
C9_Witness ==
    /\ NoPageFetched
    /\ rs_event.gateway_calls = 0
    /\ WrittenProfile["summary"] = Lit("No information found", 20)

----------------------------------------------------------------------------
(* Properties of review_jobs *)

Listed == rv_listing.jobs

NonIncreasing(s) == \A i, j \in 1..Len(s) : i < j => s[i] >= s[j]

Reviewed == rv_listing # NoValue /\ rv_min # NoValue

\* C10 as stated: review --min-score m lists exactly the stored records that
\* have a score of m or more, in non-increasing score order, and never a
\* record without a score.
C10_ReviewAsStated ==
    Reviewed =>
        /\ {Listed[i] : i \in 1..Len(Listed)} =
              {files[f] : f \in {g \in DOMAIN files :
                                    "score" \in DOMAIN files[g] /\ files[g]["score"] >= rv_min.m}}
        /\ \A i \in 1..Len(Listed) : "score" \in DOMAIN Listed[i]
        /\ NonIncreasing([i \in 1..Len(Listed) |-> Listed[i]["score"]])

\* C10: review --min-score m lists, each once, exactly the stored records
\* whose score, taken as 0 when the record has none, is m or more, in
\* non-increasing order of that score; a record without a score is listed
\* exactly when m is 0 or less.
C10_Review ==
    Reviewed =>
        /\ {Listed[i] : i \in 1..Len(Listed)} =
              {files[f] : f \in {g \in DOMAIN files : Get(files[g], "score", 0) >= rv_min.m}}
        /\ \A i, j \in 1..Len(Listed) : i # j => Listed[i] # Listed[j]
        /\ NonIncreasing([i \in 1..Len(Listed) |-> Get(Listed[i], "score", 0)])
        /\ \A f \in DOMAIN files :
              "score" \notin DOMAIN files[f]
                  => ((\E i \in 1..Len(Listed) : Listed[i] = files[f]) <=> rv_min.m <= 0)

\* scenario 3: a store of five records scored 95, 80, 80, 0 and not scored,
\* reviewed with --min-score 80, lists the three records of 80 or more
C10_Witness ==
    /\ Reviewed
    /\ rv_min.m = 80
    /\ Cardinality(DOMAIN files) = 5
    /\ [i \in 1..Len(Listed) |-> Listed[i]["score"]] = <<95, 80, 80>>

----------------------------------------------------------------------------
(* Properties of parse_resume and of the commands that call it, under SpecResume *)

\* the last parse_resume call found a cached profile
CachedBefore == rp_call.before # NoValue /\ rp_call.before # EmptyDict

\* the last parse_resume call had to fetch the resume
Refetch == rp_call # NoValue /\ (rp_call.force \/ ~CachedBefore)

\* C11: when a cached resume profile exists and no forced refresh is asked
\* for, parse_resume returns the cached profile as stored, fetches no
\* document, calls the Gateway not once and leaves the cache as it was,
\* whether or not the document id is set.
C11_CachedProfile ==
    (rp_call # NoValue /\ ~rp_call.force /\ CachedBefore) =>
        /\ ~rp_call.raises
        /\ rp_call.val = rp_call.before
        /\ ~rp_call.fetched
        /\ rp_call.gateway_calls = 0
        /\ resume_cache = rp_call.before

\* a cached profile is returned while no document id is configured
C11_Witness ==
    /\ rp_call # NoValue
    /\ ~rp_call.force
    /\ CachedBefore
    /\ ~rp_call.id_set
    /\ rp_call.val = rp_call.before
    /\ resume_cache = rp_call.before

\* C12: on a (re)fetch of the resume, when the document id is missing, the
\* fetched text is empty or the Gateway returns the error sentinel,
\* parse_resume raises and the cache is left as it was; when the Gateway
\* returns a profile, parse_resume returns and the cache holds exactly the
\* profile returned.
C12_RefetchCache ==
    Refetch =>
        IF ~rp_call.id_set \/ rp_call.text = <<>> \/ "error" \in DOMAIN rp_call.gateway
        THEN /\ rp_call.raises
             /\ resume_cache = rp_call.before
        ELSE /\ ~rp_call.raises
             /\ rp_call.gateway_calls = 1
             /\ rp_call.val # NoValue
             /\ resume_cache = rp_call.val

\* a forced refresh whose Gateway call returns the sentinel keeps the earlier
\* profile
C12_Witness ==
    /\ Refetch
    /\ rp_call.force
    /\ CachedBefore
    /\ rp_call.gateway_calls = 1
    /\ "error" \in DOMAIN rp_call.gateway
    /\ rp_call.raises
    /\ resume_cache = rp_call.before

----------------------------------------------------------------------------
(* Properties of the score stage, under SpecScore *)

\* score_jobs has just handled a record for which the Gateway returned the
\* error sentinel, the file write not failing
SentinelScored ==
    /\ sc_event # NoValue
    /\ sc_event.ev \in {"scored", "score_error"}
    /\ "error" \in DOMAIN sc_event.gateway

\* C13: when the Gateway returns the error sentinel for a record in the score
\* stage, the record is stored with score 0 and a scoring result whose
\* reasoning is "Scoring failed: " followed by the Gateway's error text, which
\* carries the error under "error", whose sub-scores are all 0 and whose
\* matched and missing skill lists are empty; the record has a score.
C13_SentinelScoredZero ==
    SentinelScored =>
        /\ sc_event.ev = "scored"
        /\ LET record == files[sc_event.id]
           IN  /\ "score" \in DOMAIN record
               /\ record["score"] = 0
               /\ "scoring" \in DOMAIN record
               /\ record["scoring"]["score"] = 0
               /\ record["scoring"]["reasoning"] =
                     SCat(Lit("Scoring failed: ", 16), sc_event.gateway["error"])
               /\ "error" \in DOMAIN record["scoring"]
               /\ record["scoring"]["error"] = sc_event.gateway["error"]
               /\ \A k \in SubScoreKeys : record["scoring"][k] = 0
               /\ record["scoring"]["matched_skills"] = <<>>
               /\ record["scoring"]["missing_skills"] = <<>>

\* a record that had no score is stored with score 0 after a sentinel
C13_Witness ==
    /\ SentinelScored
    /\ sc_event.ev = "scored"
    /\ files[sc_event.id]["score"] = 0
    /\ "error" \in DOMAIN files[sc_event.id]["scoring"]
    /\ sc_event.gateway["error"] # <<>>

\* the stored records whose score is absent or 0
UnscoredRecords == {files[f] : f \in {g \in DOMAIN files : Get(files[g], "score", 0) = 0}}

\* C14: a score run that loaded the resume queues exactly the stored records
\* whose score is absent or 0, each once, and calls the Gateway for the
\* queued records only; a record with a positive score is in no queue and its
\* file is never written; a run that queues nothing found no such record. A
\* record stored with score 0 is thus queued again by the next run.
C14_SelectsUnscored ==
    [][ /\ (stage = "idle" /\ stage' = "score") =>
              /\ {sc_queue'[i] : i \in 1..Len(sc_queue')} = UnscoredRecords
              /\ Len(sc_queue') = Cardinality(UnscoredRecords)
        /\ (stage = "idle" /\ sc_event' # NoValue /\ sc_event'.ev = "all_scored") =>
              UnscoredRecords = {}
        /\ (stage = "score" /\ sc_queue # <<>> /\ sc_queue' = Tail(sc_queue)) =>
              /\ Head(sc_queue) \in UnscoredRecords
              /\ sc_event'.id = Head(sc_queue)["id"]
        /\ \A f \in DOMAIN files :
              Get(files[f], "score", 0) > 0 => f \in DOMAIN files' /\ files'[f] = files[f]
      ]_vars

\* a run is under way whose queue holds a record an earlier run stored with
\* score 0, while the store holds a record of positive score that is not queued
C14_Witness ==
    /\ stage = "score"
    /\ \E i \in 1..Len(sc_queue) : "score" \in DOMAIN sc_queue[i] /\ sc_queue[i]["score"] = 0
    /\ \E f \in DOMAIN files :
          /\ Get(files[f], "score", 0) > 0
          /\ \A i \in 1..Len(sc_queue) : sc_queue[i]["id"] # f

----------------------------------------------------------------------------
(* Properties of the research stage, under SpecResearch *)

\* the record research_high_scoring handles next
NextResearched == Head(rs_queue)

\* C15: in one research-high run research_company is called at most once for
\* one company name: a record whose company was researched in this run
\* causes no call; a company not yet researched in this run is researched
\* whether or not a record already holds company_research from an earlier run.
C15_OncePerCompany ==
    [][ /\ \A i, j \in 1..Len(rs_calls') : i # j => rs_calls'[i] # rs_calls'[j]
        /\ (stage = "research" /\ rs_queue # <<>> /\ rs_queue' = Tail(rs_queue)) =>
              LET company == Get(NextResearched, "company", <<>>)
                  called == \E i \in 1..Len(rs_calls) : rs_calls[i] = company
              IN  IF Falsy(company) \/ called
                  THEN rs_calls' = rs_calls
                  ELSE rs_calls' = Append(rs_calls, company)
      ]_vars

\* a later run: every record of the company holds company_research, one call
\* was made for the company in this run and the next record of it was skipped
C15_Witness ==
    /\ stage = "research"
    /\ Len(rs_calls) = 1
    /\ rs_event # NoValue
    /\ rs_event.ev = "skipped"
    /\ files[rs_event.id]["company"] = rs_calls[1]
    /\ Cardinality({f \in DOMAIN files : files[f]["company"] = rs_calls[1]}) = 2
    /\ \A f \in DOMAIN files :
          files[f]["company"] = rs_calls[1] => "company_research" \in DOMAIN files[f]

\* C16: when the resume has to be fetched and no source-document id is
\* configured, the commands score, generate and refresh-resume end with a
\* non-zero exit status.
C16_ConfigErrorExit ==
    (main_exit # NoValue /\ Refetch /\ ~rp_call.id_set) =>
        /\ rp_call.raises
        /\ main_exit.status # 0

----------------------------------------------------------------------------
(* Properties of the check stage: failures while the messages are fetched *)

\* C17, for the messages of a check run: an upstream failure on one item
\* skips only that item and the batch goes on; a failure while fetching one
\* unread message does not drop the other unread messages of that check run,
\* which are still handed to the loop of check_emails.
C17_OneItemSkipped ==
    (stage = "check" /\ ck_event # NoValue /\ ck_event.ev = "fetch_error" /\ ck_event.get > 0)
        => Len(ck_emails) = ck_event.listed - 1

----------------------------------------------------------------------------
(* Properties of parse_email, under SpecParseEmail: the description *)

\* C18: the description of every record parse_email returns is at most 500
\* characters long, whether the Gateway gave it or the email body did.
C18_DescriptionBounded ==
    pe_result # NoValue =>
        /\ "description" \in DOMAIN pe_result
        /\ SLen(pe_result["description"]) <= DescriptionLimit

----------------------------------------------------------------------------
(* Properties of the job store over the three stages, under SpecPipeline *)

\* the fields the id is made of, and the id
IdentityKeys == {"title", "company", "url", "id"}

\* every file is named by the id field of its record, the hash of the
\* record's own title, company and url
NamedByOwnHash ==
    \A f \in DOMAIN files :
        /\ "id" \in DOMAIN files[f]
        /\ files[f]["id"] = f
        /\ f = _generate_job_id(files[f])

\* a step removes no file and changes the title, company, url and id of no
\* record
IdentityKept ==
    \A f \in DOMAIN files :
        /\ f \in DOMAIN files'
        /\ \A k \in IdentityKeys :
              /\ (k \in DOMAIN files[f]) <=> (k \in DOMAIN files'[f])
              /\ (k \in DOMAIN files[f]) => (files'[f][k] = files[f][k])

\* C19: after any sequence of check, score and research-high runs every file
\* of the job store is named by the id field of the record in it, which is
\* the hash of that record's own title, company and url; a step of the score
\* or research stage removes no file and changes the title, company, url and
\* id of no record.
C19_FileNamedByOwnHash ==
    []NamedByOwnHash /\ [][(stage = "score" \/ stage = "research") => IdentityKept]_vars

\* both alerts were ingested, and a record was scored 85 and researched since
C19_Witness ==
    /\ Cardinality(DOMAIN files) = 2
    /\ \E f \in DOMAIN files :
          /\ Get(files[f], "score", 0) = 85
          /\ "company_research" \in DOMAIN files[f]
          /\ files[f]["id"] = f

----------------------------------------------------------------------------
(* Properties of parse_structured, under SpecGateway: the response returned *)

\* the span from the first "{" to the last "}" of the reply decodes to an object
SpanDecodes(o) ==
    /\ ~o.raise
    /\ HasBraceSpan(o.text)
    /\ json_loads(json_match(o.text)).ok

\* the positions of the model calls so far whose reply is parseable
Parseable == {i \in 1..Len(gw_replies) : SpanDecodes(gw_replies[i])}

\* C20: parse_structured returns the object decoded from the span from the
\* first "{" to the last "}" of the first model response, among at most 3,
\* whose span decodes to an object; no model call follows that response, so
\* the number of model calls is the position of the first parseable response.
C20_FirstParseable ==
    /\ Len(gw_replies) <= MaxRetries
    /\ \A i \in Parseable :
          /\ i = Len(gw_replies)
          /\ gw_pc = "returned"
          /\ gw_result = json_loads(json_match(gw_replies[i].text)).val
    /\ (gw_pc = "returned" /\ Parseable = {}) =>
          /\ Len(gw_replies) = MaxRetries
          /\ "error" \in DOMAIN gw_result
          /\ "raw_response" \in DOMAIN gw_result

\* the first reply holds two objects, so that its span does not decode; the
\* second holds one object between prose, which is returned after two calls
C20_Witness ==
    /\ gw_pc = "returned"
    /\ Len(gw_replies) = 2
    /\ gw_replies[1] = Reply(<<Tok("{"), Member("a", "v1"), Tok("}"), Run("x", 2),
                               Tok("{"), Member("b", "v2"), Tok("}")>>)
    /\ gw_replies[2] = Reply(<<Run("x", 3), Tok("{"), Member("a", "v1"), Tok("}"), Run("x", 2)>>)
    /\ Parseable = {2}
    /\ DOMAIN gw_result = {"a"}
    /\ gw_result["a"] = "v1"

----------------------------------------------------------------------------
(* Properties of the secondary text index, under SpecPipeline *)

\* C21: every record a stage writes to the job store is also upserted into
\* the text index under the same id, with its current score, company,
\* location and source as metadata: when no command runs, the index has one
\* entry per stored record and each entry is that of the record.
C21_IndexMirrorsStore ==
    stage = "idle" =>
        /\ DOMAIN collection = DOMAIN files
        /\ \A f \in DOMAIN files :
              /\ f \in DOMAIN collection
              /\ collection[f].metadata = IndexMetadata(files[f])

----------------------------------------------------------------------------
(* Properties of parse_structured, under SpecGateway: the failure sentinel *)

\* the test by which score_job (job_scorer.py line 77), parse_resume
\* (resume_parser.py line 64) and research_company (company_researcher.py
\* line 87) take a result for the failure sentinel
TakenForSentinel(result) == "error" \in DOMAIN result

\* C22: a mapping returned by parse_structured holds the key "error" only if
\* all 3 attempts failed: when the model returned a decodable JSON object on
\* some attempt, the result is not taken for the failure sentinel by a
\* consuming stage, whatever keys the object has.
C22_ErrorOnlyAfterFailure ==
    gw_pc = "returned" =>
        /\ "error" \in DOMAIN gw_result =>
              /\ Len(gw_replies) = MaxRetries
              /\ Parseable = {}
        /\ Parseable # {} => ~TakenForSentinel(gw_result)

----------------------------------------------------------------------------
(* Properties of the research stage, under SpecResearch: what a run leaves *)

\* a research-high run has just ended and none of its jobs ended in the
\* except clause
ResearchedWithoutError ==
    /\ stage = "idle"
    /\ rs_event # NoValue
    /\ rs_event.ev = "done"
    /\ rs_event.errors = 0

\* C23: after a research-high run in which no research call raises, every
\* stored record whose score is at least the research threshold and whose
\* company name is not empty holds a company_research profile, a record that
\* shares its company name with another record of the batch included.
C23_AllHighScoringResearched ==
    ResearchedWithoutError =>
        \A f \in DOMAIN files :
            (Get(files[f], "score", 0) >= MIN_SCORE_FOR_RESEARCH
                /\ ~Falsy(Get(files[f], "company", <<>>)))
                => "company_research" \in DOMAIN files[f]

----------------------------------------------------------------------------
(* Properties of check_emails: the order of storing and marking, the count *)

\* a record with the id of the given posting is in the job store
StoredPosting(job) ==
    \E f \in DOMAIN files : Get(files[f], "id", NoValue) = _generate_job_id(job)

\* C24: in check a message is marked read only after its posting is in the
\* job store, written just before or present already: whenever a message
\* turns read, it is the message check has just parsed and a record with the
\* id of its posting is stored; no step removes a record or changes its id,
\* so in no state, between two steps of a run included, is a message read
\* while no record with its id exists.
C24_ReadOnlyWhenStored ==
    [][ /\ \A f \in DOMAIN files :
              /\ f \in DOMAIN files'
              /\ Get(files'[f], "id", NoValue) = Get(files[f], "id", NoValue)
        /\ \A m \in 1..Len(mailbox) :
              (mailbox[m].unread /\ ~mailbox'[m].unread) =>
                  /\ stage = "check"
                  /\ ck_pc = "mark"
                  /\ m = CurrentMessage
                  /\ ck_event.ev \in {"parsed", "duplicate"}
                  /\ StoredPosting(ck_event.job)
      ]_vars

\* the second message of a run was skipped as a duplicate of the record the
\* first one left, and is marked read
C24_Witness ==
    /\ stage = "check"
    /\ ck_event # NoValue
    /\ ck_event.ev = "marked"
    /\ ck_event.msg = 2
    /\ ~mailbox[1].unread
    /\ ~mailbox[2].unread
    /\ Cardinality(DOMAIN files) = 1
    /\ StoredPosting(ck_event.job)

\* the files a step adds to the job store
AddedFiles == (DOMAIN files') \ (DOMAIN files)

====
